---- MODULE Spec2Model ----
(***************************************************************************)
(* Request orchestration of the Slack <-> agent bridge (src/slack/client.ts *)
(* and storage/sessions.ts): the per-thread message queue, message         *)
(* deduplication, the plan/build turn, stop, button selections, startup    *)
(* recovery and the throttled status updates.                              *)
(*                                                                         *)
(* The program is single-threaded and cooperative: every action below is   *)
(* the code that runs between two suspension points (awaits).              *)
(***************************************************************************)
EXTENDS Integers, Sequences, FiniteSets, TLC

\* ------------------------------------------------------------------ bounds
MaxMsgs == 3          \* distinct user messages sent to thread t1 while the queue is studied
MaxTurnMsgs == 2      \* distinct user messages sent to thread t1 while its turns are studied
MaxStops == 2         \* stop commands received overall
MaxButtons == 1       \* button selections received overall
MaxTodoEvents == 2    \* todo.updated events emitted by the backend overall
MaxDedupMsgs == 2     \* distinct user messages sent to a thread while deduplication is studied
Backlog == 999        \* messages of other conversations handled in between
MaxRedeliveries == 1  \* deliveries that repeat an earlier id
MaxCalls == 4         \* calls of updateMessageThrottled and flushPendingUpdate overall
MaxElapsed == 2000    \* ms of clock time observed
StartTime == 700000   \* Date.now() when the observation starts
MaxSenders == 3       \* sendMessage calls on one session key
MaxSessions == 2      \* backend sessions created
MaxRestarts == 1      \* restarts of the process
MaxInstances == 3     \* backend instances started
MaxRecreated == 2     \* sessions created again for a stale id
MaxGateMsgs == 2      \* messages posted in the gated thread
MaxGateTicks == 3     \* half days that pass
MaxTextLen == 5       \* characters of a text to split
MaxChunkLen == 3      \* the maxLength given to splitForSlack
MaxTranslations == 2  \* calls of statusFromEvent on one event
MaxTranslatorTicks == 2 \* seconds that pass between them
MaxSlashStops == 2    \* /ode stop commands issued
MaxQueuedCalls == 5   \* calls of updateMessageThrottled for three messages
MaxAwaited == 4       \* awaited calls of updateMessageThrottled
MaxSaves == 3         \* saveSession calls
MaxUpserts == 3       \* upsertPlanMessage calls
MaxEdits == 3         \* awaited status edits while best-effort calls are studied
MaxFailedStops == 1   \* stop commands while best-effort calls are studied
MaxTickRequests == 2  \* requests of the thread whose progress timers are followed
MaxTickElapsed == 4000 \* ms of clock time while the progress timers are followed
MaxTicks == 2         \* callbacks of one progress timer
MaxCreations == 3     \* backend instances whose creation is followed
MaxStopMsgs == 1      \* user messages sent to thread t1 while best-effort calls are studied
MaxSweeps == 2        \* times the cleanup interval fires
MaxBackendTicks == 3  \* periods of five minutes that pass

Threads == {"t1", "t2"}

\* Thread t2 exists to run beside t1: it gets one message.
Limit(t) == IF t = "t1" THEN MaxMsgs ELSE 1

VARIABLES
  processedMessages,  \* storage/sessions.ts processedMessages (a Set keeps insertion order)
  sent,               \* per thread: how many distinct user messages the chat has delivered
  threadQueues,       \* client.ts threadQueues: Map<queueKey, ThreadQueue>
  calls,              \* per thread: the arguments of each handleUserMessageInternal call so far
  turns,              \* per thread: the activations of handleUserMessageInternal
  runs,               \* per thread: the activations of runOpenCodeRequest and of
                      \* handleButtonSelection, each with the ActiveRequest object it creates
  sessions,           \* storage/sessions.ts activeSessions (write-through cache of the session files)
  threadSessions,     \* settings: the thread has a backend session id
  stops,              \* the activations of handleStopCommand suspended at an await
  stopsSeen,          \* number of stop commands that found a processing request
  buttonsSeen,        \* number of button selections received
  todoEvents,         \* number of todo.updated events emitted
  redelivered,        \* number of deliveries that repeated an id delivered before
  backlog,            \* number of messages of other conversations handled so far
  \* the throttled status updates (client.ts)
  now,                \* Date.now(), in ms
  lastUpdateTime,     \* Map<key, number>; 0 stands for no entry (the code reads `get(key) || 0`)
  pendingUpdates,     \* the keys of the Map pendingUpdates
  globalUpdateQueue,  \* the queued chat.update calls
  globalQueueProcessing,
  globalLastUpdate,
  drain,              \* where processGlobalUpdateQueue is suspended
  edits,              \* per message: the texts of the chat.update calls made, in order
  settled,            \* the callers whose updateMessageThrottled promise has resolved
  meter,              \* per message: calls made, flushes that found a pending update, first and last call time
  \* startup recovery (client.ts recoverPendingRequests over the session files)
  persisted,          \* the session files: per session its ActiveRequest
  pendingRestart,     \* settings: the pending restart messages
  recovery,           \* where recoverPendingRequests is, with what it decided per session
  \* one request followed with its status message (client.ts runOpenCodeRequest, handleButtonSelection)
  life,
  \* the backend prompt lock (agents/opencode/client.ts), for one session key
  senders,            \* per caller of sendMessage: where it is
  sessionLocks,       \* the caller whose fn promise the Map holds for the key; 0: no entry
  activeRequests,     \* the caller whose AbortController the Map holds for the key; 0: no entry
  abortedControllers, \* the callers whose controller has been aborted
  arrivals,           \* number of sendMessage calls so far
  \* the backend sessions (settings threadSessions; server.ts sessionInstances,
  \* sessionEnvironments) and the getOrCreateSession call of each thread
  backend,
  \* the inbound events of thread t1 and the active-thread timestamps (settings)
  gate,
  \* splitForSlack and the posting loop of sendMessage (slack/formatter.ts, client.ts)
  chunker,
  \* statusFromEvent called on one event (agents/opencode/client.ts)
  translator,
  \* the session cache and the session files, by what they hold of the
  \* ActiveRequest of each conversation (storage/sessions.ts)
  store,
  \* the upsertPlanMessage calls of one plan and its chat messages (slack/client.ts)
  upserts,
  \* the last failure (flip changes with each) of a best-effort call (deleteMessage, abortSession, the
  \* chat.update of the global queue) that its catch block swallowed
  swallowed,
  \* the requests of one thread, one after the other, with the callbacks of
  \* their progress timers (slack/client.ts runOpenCodeRequest)
  ticking,
  \* process.env, the envQueue and the creations of backend instances
  \* (agents/opencode/server.ts withEnvOverrides)
  environ

orchVars == <<processedMessages, sent, threadQueues, calls, turns, runs, sessions,
              threadSessions, stops, stopsSeen, buttonsSeen, todoEvents, redelivered,
              backlog>>

throttleVars == <<now, lastUpdateTime, pendingUpdates, globalUpdateQueue,
                  globalQueueProcessing, globalLastUpdate, drain, edits, settled, meter>>

recoveryVars == <<persisted, pendingRestart, recovery>>

lockVars == <<senders, sessionLocks, activeRequests, abortedControllers, arrivals>>

auxVars == <<life, lockVars, backend>>

pureVars == <<chunker, translator, store, upserts, swallowed, ticking, environ>>

sideVars == <<throttleVars, recoveryVars, auxVars, pureVars>>

vars == <<orchVars, sideVars, gate>>

\* ------------------------------------------------------------------ texts
\* A text is a sequence of tokens.  A user message is one token carrying its
\* identity; plan = TRUE means the text contains the word "plan".
MsgId(t, n, p) == [kind |-> "msg", thread |-> t, n |-> n, plan |-> p]
ButtonId(t, n) == [kind |-> "button", thread |-> t, n |-> n]
Lit(s) == [kind |-> "lit", s |-> s]
NL == Lit("\n")

RECURSIVE Join(_, _)
Join(texts, sep) ==
  IF Len(texts) = 0 THEN <<>>
  ELSE IF Len(texts) = 1 THEN texts[1]
  ELSE texts[1] \o sep \o Join(Tail(texts), sep)

Contains(text, tok) == \E i \in 1..Len(text) : text[i] = tok

\* /plan/i.test(text)
MatchesPlan(text) == \E i \in 1..Len(text) : text[i].kind = "msg" /\ text[i].plan

\* ------------------------------------------------------------------ dedup
ProcessedCapacity == 1000
EvictCount == 500

IsMessageProcessed(pm, id) == \E i \in 1..Len(pm) : pm[i] = id

\* markMessageProcessed that adds nothing
MarkNothing(pm, id) == pm

\* markMessageProcessed that evicts the newest ids
MarkEvictNewest(pm, id) ==
  LET added == IF IsMessageProcessed(pm, id) THEN pm ELSE Append(pm, id)
  IN IF Len(added) > ProcessedCapacity
       THEN SubSeq(added, 1, Len(added) - EvictCount)
       ELSE added

MarkMessageProcessed(pm, id) ==
  LET added == IF IsMessageProcessed(pm, id) THEN pm ELSE Append(pm, id)
  IN IF Len(added) > ProcessedCapacity
       THEN SubSeq(added, EvictCount + 1, Len(added))
       ELSE added

\* ------------------------------------------------------------------ sessions
NoPlan == [status |-> "none", todos |-> <<>>, text |-> ""]
NoSession == [exists |-> FALSE, activeRequest |-> 0, plan |-> NoPlan]
NewSession == [exists |-> TRUE, activeRequest |-> 0, plan |-> NoPlan]

TodoA == [content |-> "a", status |-> "pending"]
TodoB == [content |-> "b", status |-> "completed"]
TodoLists == {<<>>, <<TodoA>>, <<TodoB, TodoA>>}

\* What the backend answers: no text part, text without "?", text with "?".
Responses == {"none", "text", "question"}

\* responsesContainQuestion
ResponsesContainQuestion(resp) == resp = "question"

\* buildTodoPrompt
BuildTodoPrompt(todos) ==
  IF Len(todos) = 0 THEN <<>>
  ELSE Join(<< <<Lit("Todos:")>> >> \o
            [i \in 1..Len(todos) |->
               <<Lit("- ["), Lit(todos[i].status), Lit("] "), Lit(todos[i].content)>>],
            <<NL>>)

RECURSIVE NonEmpty(_)
NonEmpty(sections) ==
  IF Len(sections) = 0 THEN <<>>
  ELSE IF Len(sections[1]) = 0 THEN NonEmpty(Tail(sections))
  ELSE <<sections[1]>> \o NonEmpty(Tail(sections))

\* buildBuildPrompt that passes the user message through
BuildBuildPromptRaw(userMessage, planText, todos, hasPlan) == userMessage

\* buildBuildPrompt
BuildBuildPrompt(userMessage, planText, todos, hasPlan) ==
  IF ~hasPlan THEN userMessage
  ELSE Join(NonEmpty(<<
              <<Lit("Implement the plan below.")>>,
              <<Lit("User request: ")>> \o userMessage,
              IF planText # "" THEN <<Lit("Plan notes:\n"), Lit(planText)>> ELSE <<>>,
              BuildTodoPrompt(todos) >>),
            <<NL, NL>>)

\* One activation of runOpenCodeRequest (kind "turn", owner = the turn) or of
\* handleButtonSelection (kind "button"), with the ActiveRequest object it
\* creates: state "none" until createActiveRequest.
NewRun(kind, owner, agent, message) ==
  [kind |-> kind, owner |-> owner, agent |-> agent, message |-> message,
   pc |-> "postStatus", state |-> "none", error |-> "", statusMsg |-> "none",
   aborts |-> 0, responses |-> "", sawTodos |-> FALSE, todos |-> <<>>,
   watching |-> FALSE, timer |-> FALSE, prompted |-> FALSE, hasSession |-> FALSE,
   sentAgent |-> ""]

\* agents/opencode/client.ts sendMessage: the agent of the payload, with b the
\* settings (the channel's agentOverrides) and agent the option of the caller
OptionAgent(b, agent) == agent

SentAgent(b, agent) == IF b.agentOverride # "" THEN b.agentOverride ELSE agent

\* An activation that has ended and whose request object nothing refers to
\* any more (garbage), and a turn that has ended.
GoneRun ==
  [kind |-> "gone", owner |-> 0, agent |-> "", message |-> <<>>,
   pc |-> "done", state |-> "none", error |-> "", statusMsg |-> "none",
   aborts |-> 0, responses |-> "", sawTodos |-> FALSE, todos |-> <<>>,
   watching |-> FALSE, timer |-> FALSE, prompted |-> FALSE, hasSession |-> FALSE,
   sentAgent |-> ""]

DoneTurn ==
  [context |-> Lit(""), text |-> <<>>, loaded |-> FALSE, pc |-> "done", phase |-> "",
   branch |-> "", run |-> 0, responses |-> "", sawTodos |-> FALSE, buildRuns |-> 0,
   prompts |-> 0]

\* Forget the ended activations whose request is referenced neither by the
\* session, nor by a stop command in progress, nor by a live timer or watcher.
Collect(rs, ss, st) ==
  [t \in Threads |->
     [r \in 1..Len(rs[t]) |->
        IF /\ rs[t][r].pc \in {"done", "thrown"}
           /\ ~rs[t][r].timer /\ ~rs[t][r].watching
           /\ ss[t].activeRequest # r
           /\ ~\E i \in 1..Len(st) : st[i].thread = t /\ st[i].request = r
          THEN GoneRun ELSE rs[t][r]]]

\* ------------------------------------------------------------------ queue
NoQueue == [exists |-> FALSE, processing |-> FALSE, items |-> <<>>]

\* queue.items.splice(0) replaced by shift(): one item is taken
SpliceOne(items) == [batch |-> <<items[1]>>, rest |-> Tail(items)]

\* queue.items.splice(0): the batch taken and what stays queued
SpliceAll(items) == [batch |-> items, rest |-> <<>>]

\* The call handleUserMessageInternal(next.context, combinedText, next.client)
\* up to its first await (getOrCreateSession): loadSession has been read.
StartTurn(st, t, batch) ==
  LET text == Join([i \in 1..Len(batch) |-> batch[i].text], <<NL>>)
  IN [st EXCEPT
        !.calls[t] = Append(@, [context |-> batch[1].context, text |-> text]),
        !.turns[t] = Append(@, [context |-> batch[1].context, text |-> text,
                                loaded |-> st.sessions[t].exists,
                                pc |-> "session", phase |-> "", branch |-> "", run |-> 0,
                                responses |-> "", sawTodos |-> FALSE, buildRuns |-> 0,
                                prompts |-> 0])]

RECURSIVE DrainLoop(_, _)
RECURSIVE ProcessThreadQueueNoFlag(_, _)
RECURSIVE ProcessThreadQueue(_, _)

\* processThreadQueue that neither tests nor sets the processing flag
ProcessThreadQueueNoFlag(st, t) ==
  IF ~st.queues[t].exists THEN st ELSE DrainLoop(st, t)

\* processThreadQueue, entry: the guard, then queue.processing = true.
\* st holds the queues, the calls, the turns and the sessions.
ProcessThreadQueue(st, t) ==
  IF ~st.queues[t].exists \/ st.queues[t].processing THEN st
  ELSE DrainLoop([st EXCEPT !.queues[t].processing = TRUE], t)

\* processThreadQueue from the head of its while loop to its next await, or
\* to its end (processing = false, then delete, or run again)
DrainLoop(st, t) ==
  IF Len(st.queues[t].items) > 0
    THEN LET sp == SpliceAll(st.queues[t].items)
         IN StartTurn([st EXCEPT !.queues[t].items = sp.rest], t, sp.batch)
    ELSE LET st2 == [st EXCEPT !.queues[t].processing = FALSE]
         IN IF Len(st2.queues[t].items) = 0
              THEN [st2 EXCEPT !.queues[t] = NoQueue]
              ELSE ProcessThreadQueue(st2, t)

\* enqueueUserMessage
EnqueueUserMessage(st, t, id, text) ==
  LET q0 == IF st.queues[t].exists THEN st.queues[t] ELSE [NoQueue EXCEPT !.exists = TRUE]
      st1 == [st EXCEPT !.queues[t] =
                [q0 EXCEPT !.items = Append(@, [context |-> id, text |-> text])]]
  IN IF ~st1.queues[t].processing THEN ProcessThreadQueue(st1, t) ELSE st1

\* The catch around the awaited turn is missing: a turn that throws ends the loop.
AfterTurnNoCatch(st, t, outcome) ==
  IF outcome = "thrown" THEN st ELSE DrainLoop(st, t)

\* processThreadQueue resumed after `await handleUserMessageInternal`, whether
\* it returned or threw (try/catch): back to the head of the loop.
AfterTurn(st, t, outcome) == DrainLoop(st, t)

QueueState == [queues |-> threadQueues, calls |-> calls, turns |-> turns,
               sessions |-> sessions]

\* handleUserMessage: dedup check-and-mark, then enqueue; all synchronous.
HandleUserMessage(t, id) ==
  /\ IF IsMessageProcessed(processedMessages, id)
       THEN UNCHANGED <<processedMessages, threadQueues, calls, turns>>
       ELSE LET res == EnqueueUserMessage(QueueState, t, id, <<id>>)
            IN /\ processedMessages' = MarkMessageProcessed(processedMessages, id)
               /\ threadQueues' = res.queues
               /\ calls' = res.calls
               /\ turns' = res.turns
  /\ UNCHANGED <<runs, sessions, threadSessions, stops, stopsSeen, buttonsSeen, todoEvents,
                 backlog, sideVars>>

\* The chat delivers a new message of thread t (through the message event or
\* the app_mention event: both call handleUserMessage with the message ts).
DeliverNew(t, p, max) ==
  /\ sent[t] < max
  /\ sent' = [sent EXCEPT ![t] = @ + 1]
  /\ UNCHANGED <<redelivered, gate>>
  /\ HandleUserMessage(t, MsgId(t, sent[t] + 1, p))

\* The chat delivers again a message it has delivered before (the second of
\* the two events, or a transport-level redelivery).
Redeliver(t, n, p) ==
  /\ n \in 1..sent[t]
  /\ redelivered < MaxRedeliveries
  /\ redelivered' = redelivered + 1
  /\ UNCHANGED <<sent, gate>>
  /\ HandleUserMessage(t, MsgId(t, n, p))

\* markMessageProcessed for the messages k..n of other conversations, in order
RECURSIVE MarkOthers(_, _, _)
MarkOthers(pm, k, n) ==
  IF k > n THEN pm
  ELSE IF k = n THEN MarkMessageProcessed(pm, MsgId("others", k, FALSE))
  ELSE LET mid == (k + n) \div 2
           first == MarkOthers(pm, k, mid)
       IN IF Len(first) > 0 THEN MarkOthers(first, mid + 1, n) ELSE first

\* The chat delivers Backlog new messages of other conversations, each
\* passing through handleUserMessage; their queues and turns are not followed.
DeliverOthers ==
  /\ backlog = 0
  /\ backlog' = Backlog
  /\ processedMessages' = MarkOthers(processedMessages, 1, Backlog)
  /\ UNCHANGED <<sent, threadQueues, calls, turns, runs, sessions, threadSessions, stops,
                 stopsSeen, buttonsSeen, todoEvents, redelivered, sideVars, gate>>

\* ------------------------------------------------------------------ storage
\* completeActiveRequest: on whatever ActiveRequest the session holds now
CompleteActiveRequest(rs, ss, t) ==
  IF ss[t].exists /\ ss[t].activeRequest # 0
    THEN [rs EXCEPT ![t][ss[t].activeRequest].state = "completed"]
    ELSE rs

\* failActiveRequest: on whatever ActiveRequest the session holds now
FailActiveRequest(rs, ss, t, err) ==
  IF ss[t].exists /\ ss[t].activeRequest # 0
    THEN [rs EXCEPT ![t][ss[t].activeRequest].state = "failed",
                    ![t][ss[t].activeRequest].error = err]
    ELSE rs

\* ------------------------------------------------------------------ the turn
\* handleUserMessageInternal resumed after getOrCreateSession: the session is
\* created or updated and saved, the phase is chosen, the plan is set and
\* runOpenCodeRequest is entered (up to its await of the status post).
TurnSession(t, k) ==
  LET tn == turns[t][k]
      s0 == IF tn.loaded THEN sessions[t] ELSE NewSession
      awaitingInput == s0.plan.status = "awaiting_input"
      usePlanAgent == awaitingInput \/ MatchesPlan(tn.text)
      plan1 == IF usePlanAgent
                 THEN IF ~awaitingInput
                        THEN [status |-> "planning", todos |-> <<>>, text |-> ""]
                        ELSE [s0.plan EXCEPT !.status = "planning"]
                 ELSE [status |-> "building", todos |-> <<>>, text |-> ""]
      agent == IF usePlanAgent THEN "plan" ELSE "build"
      ss1 == [sessions EXCEPT ![t] = [s0 EXCEPT !.plan = plan1]]
      rs1 == [runs EXCEPT ![t] = Append(@, NewRun("turn", k, agent, tn.text))]
  IN /\ tn.pc = "session"
     /\ sessions' = ss1
     /\ threadSessions' = [threadSessions EXCEPT ![t] = TRUE]
     /\ runs' = Collect(rs1, ss1, stops)
     /\ turns' = [turns EXCEPT ![t][k].pc = "run", ![t][k].phase = agent,
                               ![t][k].run = Len(runs[t]) + 1,
                               ![t][k].branch = IF usePlanAgent THEN "" ELSE "direct"]
     /\ UNCHANGED <<processedMessages, sent, threadQueues, calls, stops, stopsSeen,
                    buttonsSeen, todoEvents,
                 redelivered, backlog, sideVars, gate>>

\* getOrCreateSession throws (the backend cannot create a session)
TurnSessionFail(t, k) ==
  /\ turns[t][k].pc = "session"
  /\ turns' = [turns EXCEPT ![t][k].pc = "thrown"]
  /\ UNCHANGED <<processedMessages, sent, threadQueues, calls, runs, sessions,
                 threadSessions, stops, stopsSeen, buttonsSeen, todoEvents,
                 redelivered, backlog, sideVars, gate>>

\* The branch where the turn stops to wait for the user: plan.status =
\* "awaiting_input", saved, return.
AwaitInput(st, t, k) ==
  [st EXCEPT !.sessions[t].plan.status = "awaiting_input",
             !.turns[t][k].pc = "returned",
             !.turns[t][k].branch = "awaiting_input"]

\* The branch where the build request is entered: the build prompt is
\* synthesized, plan.status = "building", saved, runOpenCodeRequest is called.
EnterBuild(st, t, k) ==
  LET plan == st.sessions[t].plan
      prompt == BuildBuildPrompt(st.turns[t][k].text, plan.text, plan.todos, TRUE)
  IN [st EXCEPT !.sessions[t].plan.status = "building",
                !.runs[t] = Append(@, NewRun("turn", k, "build", prompt)),
                !.turns[t][k].pc = "run",
                !.turns[t][k].phase = "build",
                !.turns[t][k].run = Len(st.runs[t]) + 1,
                !.turns[t][k].branch = "build",
                !.turns[t][k].buildRuns = @ + 1]

\* handleUserMessageInternal lines 957-985: after the planner's responses are
\* posted, stop in awaiting_input or enter the build request.
\* st holds the sessions, the runs and the turns.
PlanDecision(st, t, k) ==
  LET hasTodos == Len(st.sessions[t].plan.todos) > 0
      needsInput == ResponsesContainQuestion(st.turns[t][k].responses)
  IN IF ~hasTodos \/ needsInput THEN AwaitInput(st, t, k) ELSE EnterBuild(st, t, k)

\* handleUserMessageInternal after its responses are posted (or when there
\* is no text to post): the plan decision, or plan.status = "complete".
AfterResponses(st, t, k) ==
  IF st.turns[t][k].phase = "plan"
    THEN PlanDecision(st, t, k)
    ELSE [st EXCEPT !.sessions[t].plan.status = "complete",
                    !.turns[t][k].pc = "returned"]

\* handleUserMessageInternal resumed with the responses of runOpenCodeRequest:
\* after planning the planner text is stored; the responses with text are
\* then posted (await).
AfterRun(st, t, k, r) ==
  LET tn == st.turns[t][k]
      resp == st.runs[t][r].responses
      plan0 == IF st.sessions[t].plan.status = "none"
                 THEN [status |-> "planning", todos |-> <<>>, text |-> ""]
                 ELSE st.sessions[t].plan
      st1 == IF tn.phase = "plan"
               THEN [st EXCEPT !.sessions[t].plan =
                                  IF resp # "none" THEN [plan0 EXCEPT !.text = resp]
                                  ELSE plan0,
                               !.turns[t][k].responses = resp,
                               !.turns[t][k].sawTodos = st.runs[t][r].sawTodos]
               ELSE st
  IN IF resp # "none"
       THEN [st1 EXCEPT !.turns[t][k].pc = "posting"]
       ELSE AfterResponses(st1, t, k)

TurnState == [sessions |-> sessions, runs |-> runs, turns |-> turns]

TurnPosted(t, k) ==
  LET res == AfterResponses(TurnState, t, k)
  IN /\ turns[t][k].pc = "posting"
     /\ sessions' = res.sessions
     /\ runs' = Collect(res.runs, res.sessions, stops)
     /\ turns' = res.turns
     /\ UNCHANGED <<processedMessages, sent, threadQueues, calls, threadSessions, stops,
                    stopsSeen, buttonsSeen, todoEvents,
                 redelivered, backlog, sideVars, gate>>

\* posting a response throws
TurnPostFail(t, k) ==
  /\ turns[t][k].pc = "posting"
  /\ turns' = [turns EXCEPT ![t][k].pc = "thrown"]
  /\ UNCHANGED <<processedMessages, sent, threadQueues, calls, runs, sessions,
                 threadSessions, stops, stopsSeen, buttonsSeen, todoEvents,
                 redelivered, backlog, sideVars, gate>>

\* processThreadQueue resumed when the awaited turn has returned or thrown
LoopResume(t, k) ==
  LET res == AfterTurn([QueueState EXCEPT !.turns[t][k] = DoneTurn], t, turns[t][k].pc)
  IN /\ turns[t][k].pc \in {"returned", "thrown"}
     /\ threadQueues' = res.queues
     /\ calls' = res.calls
     /\ turns' = res.turns
     /\ UNCHANGED <<processedMessages, sent, runs, sessions, threadSessions, stops,
                    stopsSeen, buttonsSeen, todoEvents,
                 redelivered, backlog, sideVars, gate>>

\* ------------------------------------------------------------------ a request
\* What the owner of run r (a turn; nothing for a button selection) sees when
\* the run ends without responses: null returned, or an exception.
OwnerEnds(ts, rs, t, r, how) ==
  IF rs[t][r].kind = "turn" THEN [ts EXCEPT ![t][rs[t][r].owner].pc = how] ELSE ts

\* The status message is posted: createActiveRequest, session.activeRequest =
\* request, saveSession, the progress timer is started, and the event watcher
\* is being started (await).  A button selection loads the session here and
\* picks its agent from the plan status.
RunPostStatusOk(t, r) ==
  LET rn == runs[t][r]
      hasSession == IF rn.kind = "turn" THEN TRUE ELSE sessions[t].exists
      status == sessions[t].plan.status
      agent == IF rn.kind = "turn" THEN rn.agent
               ELSE IF hasSession /\ status \in {"planning", "awaiting_input"} THEN "plan"
               ELSE IF hasSession /\ status = "building" THEN "build"
               ELSE "default"
      rs1 == [runs EXCEPT ![t][r] = [rn EXCEPT !.pc = "watcher", !.state = "processing",
                                               !.statusMsg = "posted", !.timer = TRUE,
                                               !.hasSession = hasSession, !.agent = agent]]
      ss1 == IF hasSession THEN [sessions EXCEPT ![t].activeRequest = r] ELSE sessions
  IN /\ rn.pc = "postStatus"
     /\ runs' = Collect(rs1, ss1, stops)
     /\ sessions' = ss1
     /\ UNCHANGED <<processedMessages, sent, threadQueues, calls, turns, threadSessions,
                    stops, stopsSeen, buttonsSeen, todoEvents,
                 redelivered, backlog, sideVars, gate>>

\* The status post yields no ts (runOpenCodeRequest returns null and the turn
\* returns) or throws.
RunPostStatusFail(t, r, how) ==
  /\ runs[t][r].pc = "postStatus"
  /\ runs' = Collect([runs EXCEPT ![t][r].pc = "done"], sessions, stops)
  /\ turns' = OwnerEnds(turns, runs, t, r, how)
  /\ UNCHANGED <<processedMessages, sent, threadQueues, calls, sessions, threadSessions,
                 stops, stopsSeen, buttonsSeen, todoEvents,
                 redelivered, backlog, sideVars, gate>>

\* startEventStreamWatcher resolves: the handler is subscribed.  A turn's
\* request then awaits its two throttled status edits; a button selection
\* sends its prompt at once.
RunWatcherOk(t, r) ==
  /\ runs[t][r].pc = "watcher"
  /\ runs' = [runs EXCEPT ![t][r].watching = TRUE,
                          ![t][r].pc = IF runs[t][r].kind = "turn" THEN "connecting"
                                       ELSE "prompt",
                          ![t][r].prompted = (runs[t][r].kind = "button"),
                          ![t][r].sentAgent = IF runs[t][r].kind = "button"
                                                THEN SentAgent(backend, runs[t][r].agent)
                                                ELSE ""]
  /\ UNCHANGED <<processedMessages, sent, threadQueues, calls, turns, sessions,
                 threadSessions, stops, stopsSeen, buttonsSeen, todoEvents,
                 redelivered, backlog, sideVars, gate>>

\* startEventStreamWatcher throws (ensureSession fails): outside any try block
RunWatcherFail(t, r) ==
  /\ runs[t][r].pc = "watcher"
  /\ runs' = Collect([runs EXCEPT ![t][r].pc = "thrown"], sessions, stops)
  /\ turns' = OwnerEnds(turns, runs, t, r, "thrown")
  /\ UNCHANGED <<processedMessages, sent, threadQueues, calls, sessions, threadSessions,
                 stops, stopsSeen, buttonsSeen, todoEvents,
                 redelivered, backlog, sideVars, gate>>

\* runOpenCodeRequest: the status edits are done, sendOpenCodeMessage is called
RunSendPrompt(t, r) ==
  /\ runs[t][r].pc = "connecting"
  /\ runs' = [runs EXCEPT ![t][r].pc = "prompt", ![t][r].prompted = TRUE,
                          ![t][r].sentAgent = SentAgent(backend, runs[t][r].agent)]
  /\ turns' = [turns EXCEPT ![t][runs[t][r].owner].prompts = @ + 1]
  /\ UNCHANGED <<processedMessages, sent, threadQueues, calls, sessions,
                 threadSessions, stops, stopsSeen, buttonsSeen, todoEvents,
                 redelivered, backlog, sideVars, gate>>

\* upsertPlanMessage, the part that decides the plan's todo list
UpsertPlanTodos(plan, todos) ==
  IF Len(todos) = 0 THEN plan
  ELSE IF plan.status = "none" THEN [status |-> "planning", todos |-> todos, text |-> ""]
  ELSE [plan EXCEPT !.todos = todos]

\* The backend session of thread t emits todo.updated while a prompt runs on
\* it: every subscribed watcher of the thread stores the list in its request
\* and mirrors it into the plan.
TodoEvent(t, todos) ==
  LET watchers == {r \in 1..Len(runs[t]) : runs[t][r].watching}
  IN /\ todoEvents < MaxTodoEvents
     /\ \E r \in 1..Len(runs[t]) : runs[t][r].pc = "prompt"
     /\ watchers # {}
     /\ todoEvents' = todoEvents + 1
     /\ runs' = [runs EXCEPT ![t] =
                   [r \in 1..Len(runs[t]) |->
                      IF r \in watchers
                        THEN [runs[t][r] EXCEPT !.todos = todos,
                                                !.sawTodos = @ \/ Len(todos) > 0]
                        ELSE runs[t][r]]]
     /\ sessions' = IF \E r \in watchers : runs[t][r].hasSession
                      THEN [sessions EXCEPT ![t].plan = UpsertPlanTodos(@, todos)]
                      ELSE sessions
     /\ UNCHANGED <<processedMessages, sent, threadQueues, calls, turns, threadSessions,
                    stops, stopsSeen, buttonsSeen,
                 redelivered, backlog, sideVars, gate>>

\* The backend prompt returns: timer cleared, watcher stopped, request.state =
\* "completed", and the status message is being deleted (await).
RunPromptReturn(t, r, resp) ==
  /\ runs[t][r].pc = "prompt"
  /\ runs' = [runs EXCEPT ![t][r].pc = "deleting", ![t][r].timer = FALSE,
                          ![t][r].watching = FALSE, ![t][r].state = "completed",
                          ![t][r].responses = resp]
  /\ UNCHANGED <<processedMessages, sent, threadQueues, calls, turns, sessions,
                 threadSessions, stops, stopsSeen, buttonsSeen, todoEvents,
                 redelivered, backlog, sideVars, gate>>

\* The backend prompt throws: timer cleared, watcher stopped, request.state =
\* "failed" with the classified error, and the error status is being written.
RunPromptFail(t, r) ==
  /\ runs[t][r].pc = "prompt"
  /\ runs' = [runs EXCEPT ![t][r].pc = "failing", ![t][r].timer = FALSE,
                          ![t][r].watching = FALSE, ![t][r].state = "failed",
                          ![t][r].error = "classified"]
  /\ UNCHANGED <<processedMessages, sent, threadQueues, calls, turns, sessions,
                 threadSessions, stops, stopsSeen, buttonsSeen, todoEvents,
                 redelivered, backlog, sideVars, gate>>

\* The error status is written: failActiveRequest, and null is returned.
RunFailed(t, r) ==
  /\ runs[t][r].pc = "failing"
  /\ runs' = Collect([FailActiveRequest(runs, sessions, t, runs[t][r].error)
                        EXCEPT ![t][r].pc = "done"], sessions, stops)
  /\ turns' = OwnerEnds(turns, runs, t, r, "returned")
  /\ UNCHANGED <<processedMessages, sent, threadQueues, calls, sessions, threadSessions,
                 stops, stopsSeen, buttonsSeen, todoEvents,
                 redelivered, backlog, sideVars, gate>>

\* A turn's status message is deleted: completeActiveRequest, the responses
\* are returned to handleUserMessageInternal, which goes on to post them.
RunDeleted(t, r) ==
  LET rs1 == [CompleteActiveRequest(runs, sessions, t)
                EXCEPT ![t][r].pc = "done", ![t][r].statusMsg = "deleted"]
      res == AfterRun([TurnState EXCEPT !.runs = rs1], t, runs[t][r].owner, r)
  IN /\ runs[t][r].pc = "deleting"
     /\ runs[t][r].kind = "turn"
     /\ sessions' = res.sessions
     /\ runs' = Collect(res.runs, res.sessions, stops)
     /\ turns' = res.turns
     /\ UNCHANGED <<processedMessages, sent, threadQueues, calls, threadSessions, stops,
                    stopsSeen, buttonsSeen, todoEvents,
                 redelivered, backlog, sideVars, gate>>

\* ------------------------------------------------------------------ button selection
\* handleButtonSelection up to its await of the status post: the thread has a
\* backend session, the selection message is marked processed.
ButtonStart(t) ==
  LET id == ButtonId(t, buttonsSeen + 1)
  IN /\ buttonsSeen < MaxButtons
     /\ threadSessions[t]
     /\ ~IsMessageProcessed(processedMessages, id)
     /\ buttonsSeen' = buttonsSeen + 1
     /\ processedMessages' = MarkMessageProcessed(processedMessages, id)
     /\ runs' = [runs EXCEPT ![t] =
                   Append(@, NewRun("button", 0, "", <<Lit("User selected: "), id>>))]
     /\ UNCHANGED <<sent, threadQueues, calls, turns, sessions, threadSessions, stops,
                    stopsSeen, todoEvents,
                 redelivered, backlog, sideVars, gate>>

\* completeActiveRequest at the end of handleButtonSelection's try block
ButtonComplete(rs, ss, t, r) ==
  [CompleteActiveRequest(rs, ss, t) EXCEPT ![t][r].pc = "done"]

\* The status message of a button selection is deleted; its responses that
\* carry text are then posted (await), if any.
ButtonDeleted(t, r) ==
  LET rs1 == [runs EXCEPT ![t][r].statusMsg = "deleted"]
  IN /\ runs[t][r].pc = "deleting"
     /\ runs[t][r].kind = "button"
     /\ runs' = IF runs[t][r].responses # "none"
                  THEN [rs1 EXCEPT ![t][r].pc = "posting"]
                  ELSE Collect(ButtonComplete(rs1, sessions, t, r), sessions, stops)
     /\ UNCHANGED <<processedMessages, sent, threadQueues, calls, turns, sessions,
                    threadSessions, stops, stopsSeen, buttonsSeen, todoEvents,
                 redelivered, backlog, sideVars, gate>>

ButtonPosted(t, r) ==
  /\ runs[t][r].pc = "posting"
  /\ runs' = Collect(ButtonComplete(runs, sessions, t, r), sessions, stops)
  /\ UNCHANGED <<processedMessages, sent, threadQueues, calls, turns, sessions,
                 threadSessions, stops, stopsSeen, buttonsSeen, todoEvents,
                 redelivered, backlog, sideVars, gate>>

\* posting a response throws inside the try block: the catch block runs
ButtonPostFail(t, r) ==
  /\ runs[t][r].pc = "posting"
  /\ runs' = [runs EXCEPT ![t][r].pc = "failing", ![t][r].state = "failed",
                          ![t][r].error = "classified"]
  /\ UNCHANGED <<processedMessages, sent, threadQueues, calls, turns, sessions,
                 threadSessions, stops, stopsSeen, buttonsSeen, todoEvents,
                 redelivered, backlog, sideVars, gate>>

\* ------------------------------------------------------------------ stop
\* handleStopCommand from its entry to `await abortSession`: what it does to
\* the request it found processing (the abort call is issued, nothing else).
StopEntry(rn) == [rn EXCEPT !.aborts = @ + 1]

\* handleStopCommand for thread t, whose session holds a processing request,
\* up to its first await.
HandleStopCommand(t) ==
  LET r == sessions[t].activeRequest
  IN /\ stopsSeen < MaxStops
     /\ sessions[t].exists
     /\ r # 0
     /\ runs[t][r].state = "processing"
     /\ stopsSeen' = stopsSeen + 1
     /\ stops' = Append(stops, [thread |-> t, request |-> r, pc |-> "aborting"])
     /\ runs' = [runs EXCEPT ![t][r] = StopEntry(@)]
     /\ UNCHANGED <<processedMessages, sent, threadQueues, calls, turns, sessions,
                    threadSessions, buttonsSeen, todoEvents,
                 redelivered, backlog, sideVars>>

\* A stop message arrives on thread t whose session holds a processing request.
StopStart(t) == HandleStopCommand(t) /\ UNCHANGED gate

\* abortSession has settled (its errors are swallowed): request.state =
\* "failed", request.error = "Stopped by user", then `await deleteMessage`.
StopAborted(i) ==
  LET sp == stops[i]
  IN /\ sp.pc = "aborting"
     /\ stops' = [stops EXCEPT ![i].pc = "deleting"]
     /\ runs' = [runs EXCEPT ![sp.thread][sp.request].state = "failed",
                             ![sp.thread][sp.request].error = "Stopped by user"]
     /\ UNCHANGED <<processedMessages, sent, threadQueues, calls, turns, sessions,
                    threadSessions, stopsSeen, buttonsSeen, todoEvents,
                 redelivered, backlog, sideVars, gate>>

\* The status message is deleted (failures ignored): failActiveRequest on the
\* session's current request, return true.
StopFinish(i) ==
  LET sp == stops[i]
      t == sp.thread
      rs1 == [FailActiveRequest(runs, sessions, t, "Stopped by user")
                EXCEPT ![t][sp.request].statusMsg = "deleted"]
      st1 == [j \in 1..(Len(stops) - 1) |-> IF j < i THEN stops[j] ELSE stops[j + 1]]
  IN /\ sp.pc = "deleting"
     /\ stops' = st1
     /\ runs' = Collect(rs1, sessions, st1)
     /\ UNCHANGED <<processedMessages, sent, threadQueues, calls, turns, sessions,
                    threadSessions, stopsSeen, buttonsSeen, todoEvents,
                 redelivered, backlog, sideVars, gate>>

\* ------------------------------------------------------------------ best-effort calls
NoFailure ==
  [scene |-> "", flip |-> FALSE, what |-> "none", thread |-> "", request |-> 0, key |-> ""]

\* a failure is caught: what was called, for which request or message
Swallow(what, t, r, key) ==
  [scene |-> swallowed.scene, flip |-> ~swallowed.flip, what |-> what, thread |-> t, request |-> r, key |-> key]

\* abortSession catches the error of getSessionClient or of session.abort and
\* returns: handleStopCommand goes on as after an abort that worked
StopAbortFailed(i) ==
  LET sp == stops[i]
  IN /\ sp.pc = "aborting"
     /\ stops' = [stops EXCEPT ![i].pc = "deleting"]
     /\ runs' = [runs EXCEPT ![sp.thread][sp.request].state = "failed",
                             ![sp.thread][sp.request].error = "Stopped by user"]
     /\ swallowed' = Swallow("abort", sp.thread, sp.request, "")
     /\ UNCHANGED <<processedMessages, sent, threadQueues, calls, turns, sessions,
                    threadSessions, stopsSeen, buttonsSeen, todoEvents, redelivered,
                    backlog, throttleVars, recoveryVars, auxVars, chunker, translator,
                    store, upserts, ticking, environ, gate>>

\* deleteMessage catches the error of chat.delete and returns: the status
\* message stays, handleStopCommand goes on to failActiveRequest
StopDeleteFailed(i) ==
  LET sp == stops[i]
      t == sp.thread
      rs1 == FailActiveRequest(runs, sessions, t, "Stopped by user")
      st1 == [j \in 1..(Len(stops) - 1) |-> IF j < i THEN stops[j] ELSE stops[j + 1]]
  IN /\ sp.pc = "deleting"
     /\ stops' = st1
     /\ runs' = Collect(rs1, sessions, st1)
     /\ swallowed' = Swallow("stopDelete", t, sp.request, "")
     /\ UNCHANGED <<processedMessages, sent, threadQueues, calls, turns, sessions,
                    threadSessions, stopsSeen, buttonsSeen, todoEvents, redelivered,
                    backlog, throttleVars, recoveryVars, auxVars, chunker, translator,
                    store, upserts, ticking, environ, gate>>

\* deleteMessage catches the error of chat.delete in runOpenCodeRequest: the
\* status message stays, completeActiveRequest, the responses are returned
RunDeleteFailed(t, r) ==
  LET rs1 == [CompleteActiveRequest(runs, sessions, t) EXCEPT ![t][r].pc = "done"]
      res == AfterRun([TurnState EXCEPT !.runs = rs1], t, runs[t][r].owner, r)
  IN /\ runs[t][r].pc = "deleting"
     /\ runs[t][r].kind = "turn"
     /\ sessions' = res.sessions
     /\ runs' = Collect(res.runs, res.sessions, stops)
     /\ turns' = res.turns
     /\ swallowed' = Swallow("delete", t, r, "")
     /\ UNCHANGED <<processedMessages, sent, threadQueues, calls, threadSessions, stops,
                    stopsSeen, buttonsSeen, todoEvents, redelivered, backlog,
                    throttleVars, recoveryVars, auxVars, chunker, translator,
                    store, upserts, ticking, environ, gate>>

\* ------------------------------------------------------------------ throttled status updates
UPDATE_THROTTLE_MS == 500
GLOBAL_UPDATE_INTERVAL_MS == 1000

Msgs == {"m1", "m2", "m3"}

Idle == [pc |-> "idle", wakeAt |-> 0, item |-> [key |-> "", text |-> Lit(""), waiter |-> {}]]

\* the throttling state as one value, for the functions below
Throttle ==
  [now |-> now, lastUpdateTime |-> lastUpdateTime, pendingUpdates |-> pendingUpdates,
   queue |-> globalUpdateQueue, processing |-> globalQueueProcessing,
   globalLastUpdate |-> globalLastUpdate, drain |-> drain, edits |-> edits,
   settled |-> settled]

\* processGlobalUpdateQueue, from `const item = globalUpdateQueue.shift()` to
\* the await of chat.update (the call is made), or to the loop's break
DrainShift(th) ==
  IF Len(th.queue) = 0
    THEN [th EXCEPT !.processing = FALSE, !.drain = Idle]
    ELSE [th EXCEPT !.queue = Tail(@),
                    !.globalLastUpdate = th.now,
                    !.edits[Head(th.queue).key] = Append(@, Head(th.queue).text),
                    !.drain = [pc |-> "updating", wakeAt |-> 0, item |-> Head(th.queue)]]

\* the head of the loop without the test of the global interval
DrainHeadNoGate(th) == DrainShift(th)

\* processGlobalUpdateQueue from the head of its while loop to its next await
\* or to its end
DrainHead(th) ==
  IF Len(th.queue) = 0
    THEN [th EXCEPT !.processing = FALSE, !.drain = Idle]
    ELSE IF th.now - th.globalLastUpdate < GLOBAL_UPDATE_INTERVAL_MS
      THEN [th EXCEPT !.drain = [Idle EXCEPT !.pc = "sleeping",
                                   !.wakeAt = th.globalLastUpdate + GLOBAL_UPDATE_INTERVAL_MS]]
      ELSE DrainShift(th)

\* processGlobalUpdateQueue, entry
ProcessGlobalUpdateQueue(th) ==
  IF th.processing \/ Len(th.queue) = 0 THEN th
  ELSE DrainHead([th EXCEPT !.processing = TRUE])

\* updateMessageThrottled without the per-message test
UpdateMessageUnthrottled(th, key, text, waiter) ==
  ProcessGlobalUpdateQueue(
    [th EXCEPT !.lastUpdateTime[key] = th.now,
               !.queue = Append(@, [key |-> key, text |-> text, waiter |-> waiter])])

\* updateMessageThrottled that leaves the queued updates of the message
UpdateMessageNoCollapse(th, key, text, waiter) ==
  IF th.now - th.lastUpdateTime[key] < UPDATE_THROTTLE_MS
    THEN [th EXCEPT !.pendingUpdates = @ \cup {key}, !.settled = @ \cup waiter]
    ELSE ProcessGlobalUpdateQueue(
           [th EXCEPT !.lastUpdateTime[key] = th.now,
                      !.pendingUpdates = @ \ {key},
                      !.queue = Append(@, [key |-> key, text |-> text, waiter |-> waiter])])

\* updateMessageThrottled that removes the queued updates of the message
\* without resolving their promises
UpdateMessageNoResolve(th, key, text, waiter) ==
  IF th.now - th.lastUpdateTime[key] < UPDATE_THROTTLE_MS
    THEN [th EXCEPT !.pendingUpdates = @ \cup {key}, !.settled = @ \cup waiter]
    ELSE ProcessGlobalUpdateQueue(
           [th EXCEPT !.lastUpdateTime[key] = th.now,
                      !.pendingUpdates = @ \ {key},
                      !.queue = Append(SelectSeq(th.queue, LAMBDA e : e.key # key),
                                       [key |-> key, text |-> text, waiter |-> waiter])])

\* updateMessageThrottled; waiter: who awaits the returned promise
UpdateMessageThrottled(th, key, text, waiter) ==
  IF th.now - th.lastUpdateTime[key] < UPDATE_THROTTLE_MS
    THEN [th EXCEPT !.pendingUpdates = @ \cup {key}, !.settled = @ \cup waiter]
    ELSE LET same == {i \in 1..Len(th.queue) : th.queue[i].key = key}
             kept == SelectSeq(th.queue, LAMBDA e : e.key # key)
             woken == UNION {th.queue[i].waiter : i \in same}
         IN ProcessGlobalUpdateQueue(
              [th EXCEPT !.lastUpdateTime[key] = th.now,
                         !.pendingUpdates = @ \ {key},
                         !.queue = Append(kept, [key |-> key, text |-> text,
                                                 waiter |-> waiter]),
                         !.settled = @ \cup woken])

\* flushPendingUpdate
FlushPendingUpdate(th, key, text, waiter) ==
  IF key \in th.pendingUpdates
    THEN UpdateMessageThrottled([th EXCEPT !.lastUpdateTime[key] = 0], key, text, waiter)
    ELSE [th EXCEPT !.settled = @ \cup waiter]

\* the throttling state after a step (the clock aside)
SetThrottle(th) ==
  /\ lastUpdateTime' = th.lastUpdateTime
  /\ pendingUpdates' = th.pendingUpdates
  /\ globalUpdateQueue' = th.queue
  /\ globalQueueProcessing' = th.processing
  /\ globalLastUpdate' = th.globalLastUpdate
  /\ drain' = th.drain
  /\ edits' = th.edits
  /\ settled' = th.settled

\* Time passes.
Tick(dt) ==
  /\ now + dt <= StartTime + MaxElapsed
  /\ now' = now + dt
  /\ UNCHANGED <<lastUpdateTime, pendingUpdates, globalUpdateQueue, globalQueueProcessing,
                 globalLastUpdate, drain, edits, settled, meter, gate, pureVars, orchVars, recoveryVars, auxVars>>

TotalCalls == meter["m1"].calls + meter["m2"].calls + meter["m3"].calls

StatusText(n) == [kind |-> "status", v |-> n]

\* Some caller (the progress timer, a status change) calls updateMessageThrottled.
UpdateUpTo(key, limit) ==
  /\ TotalCalls < limit
  /\ SetThrottle(UpdateMessageThrottled(Throttle, key, StatusText(meter[key].calls + 1), {}))
  /\ meter' = [meter EXCEPT ![key].calls = @ + 1,
                            ![key].first = IF meter[key].calls = 0 THEN now ELSE @,
                            ![key].last = now]
  /\ UNCHANGED <<now, gate, pureVars, orchVars, recoveryVars, auxVars>>

Update(key) == UpdateUpTo(key, MaxCalls)

\* A caller awaits updateMessageThrottled; the calls are numbered.
UpdateAwaited(key) ==
  /\ TotalCalls < MaxAwaited
  /\ SetThrottle(UpdateMessageThrottled(Throttle, key, StatusText(meter[key].calls + 1),
                                        {TotalCalls + 1}))
  /\ meter' = [meter EXCEPT ![key].calls = @ + 1,
                            ![key].first = IF meter[key].calls = 0 THEN now ELSE @,
                            ![key].last = now]
  /\ UNCHANGED <<now, gate, pureVars, orchVars, recoveryVars, auxVars>>

\* The time the drain loop sleeps for passes.
SleepElapses ==
  /\ drain.pc = "sleeping"
  /\ now < drain.wakeAt
  /\ now' = drain.wakeAt
  /\ UNCHANGED <<lastUpdateTime, pendingUpdates, globalUpdateQueue, globalQueueProcessing,
                 globalLastUpdate, drain, edits, settled, meter, gate, pureVars, orchVars,
                 recoveryVars, auxVars>>

\* The failure path of a request calls flushPendingUpdate and finds an update pending.
Flush(key) ==
  /\ TotalCalls < MaxCalls
  /\ key \in pendingUpdates
  /\ SetThrottle(FlushPendingUpdate(Throttle, key, StatusText(meter[key].calls + 1), {}))
  /\ meter' = [meter EXCEPT ![key].calls = @ + 1, ![key].flushes = @ + 1,
                            ![key].last = now]
  /\ UNCHANGED <<now, gate, pureVars, orchVars, recoveryVars, auxVars>>

\* The drain loop's timer fires (not before its time).
DrainWake ==
  /\ drain.pc = "sleeping"
  /\ now >= drain.wakeAt
  /\ SetThrottle(DrainShift(Throttle))
  /\ UNCHANGED <<now, meter, gate, pureVars, orchVars, recoveryVars, auxVars>>

\* chat.update returns or throws (caught and logged): item.resolve(), and the
\* loop goes on.
DrainUpdated ==
  /\ drain.pc = "updating"
  /\ SetThrottle(DrainHead([Throttle EXCEPT !.settled = @ \cup drain.item.waiter]))
  /\ UNCHANGED <<now, meter, gate, pureVars, orchVars, recoveryVars, auxVars>>

\* chat.update throws and the error leaves processGlobalUpdateQueue: the
\* promise of the loop rejects, nothing after the call runs
EditThrewUncaught(th) == [th EXCEPT !.drain = Idle]

\* chat.update throws in processGlobalUpdateQueue: the catch block logs,
\* item.resolve() runs, the loop goes to its next round
EditThrew(th) == DrainHead([th EXCEPT !.settled = @ \cup th.drain.item.waiter])

\* The chat.update call of the drain loop fails.
DrainUpdateFailed ==
  /\ drain.pc = "updating"
  /\ SetThrottle(EditThrew(Throttle))
  /\ swallowed' = Swallow("edit", "", 0, drain.item.key)
  /\ UNCHANGED <<now, meter, gate, chunker, translator, store, upserts, ticking, environ,
                 orchVars, recoveryVars, auxVars>>

\* ------------------------------------------------------------------ startup recovery
STALE_AFTER_MS == 600000

Keys == {"s1", "s2"}

\* the status message of a session's request, and the one restart message
StatusKey(s) == IF s = "s1" THEN "m1" ELSE "m2"
RestartKey == "m3"

NoRequest == [state |-> "none", startedAt |-> 0]

\* What a session file can hold when the process starts: no ActiveRequest, or
\* one in any state, started just over, exactly, or just under ten minutes ago.
SessionFiles ==
  {NoRequest} \cup
  [state : {"processing", "completed", "failed"},
   startedAt : {StartTime - STALE_AFTER_MS - 250, StartTime - STALE_AFTER_MS,
                StartTime - STALE_AFTER_MS + 500}]

Undecided == [kind |-> "none", age |-> 0]

\* the staleness test with >= in place of >
IsStaleAtThreshold(age) == age >= STALE_AFTER_MS

\* recoverPendingRequests: `age > 10 * 60 * 1000`
IsStale(age) == age > STALE_AFTER_MS

\* getSessionsWithPendingRequests: the session files in directory order, those
\* with an ActiveRequest in state processing
RECURSIVE GetSessionsWithPendingRequests(_, _)
GetSessionsWithPendingRequests(files, order) ==
  IF Len(order) = 0 THEN <<>>
  ELSE (IF files[order[1]].state = "processing" THEN <<order[1]>> ELSE <<>>)
         \o GetSessionsWithPendingRequests(files, Tail(order))

\* recoverPendingRequests, the second loop, from its head to its next await or
\* to the end.  st holds the throttling state, the session files, the pending
\* restart messages and the position of the recovery.
RestartLoop(st) ==
  IF ~st.pendingRestart
    THEN [st EXCEPT !.recovery.pc = "done"]
    ELSE [st EXCEPT !.recovery.pc = "awaitRestart",
                    !.th = UpdateMessageThrottled(st.th, RestartKey,
                                                  Lit("Restarting Ode complete."),
                                                  {"recovery"})]

\* recoverPendingRequests, the first loop, from its head to its next await or
\* on to the second loop
RECURSIVE RecoverLoop(_)
RecoverLoop(st) ==
  LET rc == st.recovery
  IN IF rc.i > Len(rc.list) THEN RestartLoop(st)
     ELSE LET s == rc.list[rc.i]
              request == st.persisted[s]
              age == st.th.now - request.startedAt
          IN IF request.state = "none"
               THEN RecoverLoop([st EXCEPT !.recovery.i = @ + 1])
             ELSE IF IsStale(age)
               THEN RecoverLoop([st EXCEPT !.persisted[s] = NoRequest,
                                           !.recovery.i = @ + 1,
                                           !.recovery.decided[s] =
                                              [kind |-> "stale", age |-> age]])
             ELSE [st EXCEPT !.recovery.pc = "awaitEdit",
                             !.recovery.decided[s] = [kind |-> "edit", age |-> age],
                             !.th = UpdateMessageThrottled(
                                      st.th, StatusKey(s),
                                      Lit("_Bot restarted - please resend your message_"),
                                      {"recovery"})]

RecoveryState ==
  [th |-> Throttle, persisted |-> persisted, pendingRestart |-> pendingRestart,
   recovery |-> recovery]

SetRecovery(st) ==
  /\ SetThrottle(st.th)
  /\ persisted' = st.persisted
  /\ pendingRestart' = st.pendingRestart
  /\ recovery' = st.recovery

\* index.ts calls recoverPendingRequests, one second after the apps started.
RecoverStart ==
  /\ recovery.pc = "boot"
  /\ SetRecovery(RecoverLoop(
       [RecoveryState EXCEPT
          !.recovery.list = GetSessionsWithPendingRequests(persisted, <<"s1", "s2">>),
          !.recovery.reloaded = recovery.live,
          !.recovery.i = 1]))
  /\ UNCHANGED <<now, meter, gate, pureVars, orchVars, auxVars>>

\* In the second that index.ts waits before it calls recoverPendingRequests, a
\* message of the conversation of s arrives and its turn reaches setInterval:
\* the session is loaded into the cache, the status message posted, the
\* ActiveRequest created and saved.
LiveTurnStarts(s) ==
  /\ recovery.pc = "boot"
  /\ s \notin recovery.live
  /\ persisted' = [persisted EXCEPT ![s] = [state |-> "processing", startedAt |-> now]]
  /\ recovery' = [recovery EXCEPT !.live = @ \cup {s}]
  /\ UNCHANGED <<pendingRestart, throttleVars, gate, pureVars, orchVars, auxVars>>

\* The awaited status edit has resolved: clearActiveRequest, next session.
RecoverEdited ==
  /\ recovery.pc = "awaitEdit"
  /\ "recovery" \in settled
  /\ SetRecovery(RecoverLoop(
       [RecoveryState EXCEPT
          !.th.settled = @ \ {"recovery"},
          !.persisted[recovery.list[recovery.i]] = NoRequest,
          !.recovery.i = @ + 1]))
  /\ UNCHANGED <<now, meter, gate, pureVars, orchVars, auxVars>>

\* The awaited edit of the restart message has resolved:
\* clearPendingRestartMessages.
RecoverRestarted ==
  /\ recovery.pc = "awaitRestart"
  /\ "recovery" \in settled
  /\ SetRecovery([RecoveryState EXCEPT !.th.settled = @ \ {"recovery"},
                                       !.pendingRestart = FALSE,
                                       !.recovery.pc = "done"])
  /\ UNCHANGED <<now, meter, gate, pureVars, orchVars, auxVars>>

\* ------------------------------------------------------------------ a request and its status message
\* One request (of runOpenCodeRequest: kind "turn", or of
\* handleButtonSelection: kind "button") followed from the posting of its
\* status message "m1" to its end, with the texts it sends through the
\* throttled update path.
PROGRESS_INTERVAL_MS == 2000

Errors == {"timeout", "network", "other"}

\* categorizeError
CategorizeError(err) ==
  IF err = "timeout"
    THEN [message |-> "Request timed out", suggestion |-> "Try a simpler request"]
  ELSE IF err = "network"
    THEN [message |-> "Network error", suggestion |-> "Check your network connection"]
  ELSE [message |-> err, suggestion |-> "If this persists, try starting a new thread"]

\* `Error: ${message}\n_${suggestion}_`
ErrorStatus(err) ==
  [kind |-> "error", message |-> CategorizeError(err).message,
   suggestion |-> CategorizeError(err).suggestion]

NoLife ==
  [kind |-> "", pc |-> "none", state |-> "none", error |-> "", cause |-> "",
   saved |-> [state |-> "none", error |-> ""], deleted |-> FALSE,
   timer |-> FALSE, nextTick |-> 0, ticks |-> 0]

\* the request's continuation stops waiting for its promise
Resumed(th) == [th EXCEPT !.settled = @ \ {"run"}]

\* The status message is posted: createActiveRequest, saveSession,
\* setInterval(..., 2000), and startEventStreamWatcher is awaited.
LifeStart(kind) ==
  /\ life.pc = "none"
  /\ life' = [NoLife EXCEPT !.kind = kind, !.pc = "watcher", !.state = "processing",
                            !.saved.state = "processing", !.timer = TRUE,
                            !.nextTick = now + PROGRESS_INTERVAL_MS]
  /\ UNCHANGED <<throttleVars, gate, pureVars, orchVars, recoveryVars, lockVars, backend>>

\* The watcher is started.  runOpenCodeRequest sends "Connecting" through the
\* throttled path and awaits it; handleButtonSelection sends its prompt.
LifeWatcher ==
  /\ life.pc = "watcher"
  /\ IF life.kind = "turn"
       THEN /\ SetThrottle(UpdateMessageThrottled(Throttle, "m1", Lit("Connecting"), {"run"}))
            /\ life' = [life EXCEPT !.pc = "connecting"]
       ELSE /\ SetThrottle(Throttle)
            /\ life' = [life EXCEPT !.pc = "prompt"]
  /\ UNCHANGED <<now, meter, gate, pureVars, orchVars, recoveryVars, lockVars, backend>>

\* runOpenCodeRequest: the "Connecting" update has resolved, the phase label
\* is sent through the throttled path and awaited.
LifeConnected ==
  /\ life.pc = "connecting"
  /\ "run" \in settled
  /\ SetThrottle(UpdateMessageThrottled(Resumed(Throttle), "m1", Lit("phase"), {"run"}))
  /\ life' = [life EXCEPT !.pc = "labelling"]
  /\ UNCHANGED <<now, meter, gate, pureVars, orchVars, recoveryVars, lockVars, backend>>

\* runOpenCodeRequest: the phase label update has resolved, the prompt is sent.
LifeLabelled ==
  /\ life.pc = "labelling"
  /\ "run" \in settled
  /\ SetThrottle(Resumed(Throttle))
  /\ life' = [life EXCEPT !.pc = "prompt"]
  /\ UNCHANGED <<now, meter, gate, pureVars, orchVars, recoveryVars, lockVars, backend>>

\* The progress timer fires: the status text is rendered from the request and
\* sent through the throttled path.
LifeTimer ==
  /\ life.timer
  /\ now >= life.nextTick
  /\ SetThrottle(IF life.state = "processing"
                   THEN UpdateMessageThrottled(Throttle, "m1", StatusText(life.ticks + 1), {})
                   ELSE Throttle)
  /\ life' = [life EXCEPT !.nextTick = @ + PROGRESS_INTERVAL_MS, !.ticks = @ + 1]
  /\ UNCHANGED <<now, meter, gate, pureVars, orchVars, recoveryVars, lockVars, backend>>

\* The backend prompt throws err: the catch block clears the timer, sets the
\* request failed, and writes the error status: runOpenCodeRequest awaits
\* flushPendingUpdate first, handleButtonSelection awaits
\* updateMessageThrottled at once.
LifePromptFail(err) ==
  /\ life.pc = "prompt"
  /\ IF life.kind = "turn"
       THEN /\ SetThrottle(FlushPendingUpdate(Throttle, "m1", ErrorStatus(err), {"run"}))
            /\ life' = [life EXCEPT !.pc = "flushing", !.timer = FALSE, !.state = "failed",
                                    !.error = CategorizeError(err).message, !.cause = err]
       ELSE /\ SetThrottle(UpdateMessageThrottled(Throttle, "m1", ErrorStatus(err), {"run"}))
            /\ life' = [life EXCEPT !.pc = "erroring", !.timer = FALSE, !.state = "failed",
                                    !.error = CategorizeError(err).message, !.cause = err]
  /\ UNCHANGED <<now, meter, gate, pureVars, orchVars, recoveryVars, lockVars, backend>>

\* runOpenCodeRequest: flushPendingUpdate has resolved, the error status is
\* sent through updateMessageThrottled and awaited.
LifeFlushed ==
  /\ life.pc = "flushing"
  /\ "run" \in settled
  /\ SetThrottle(UpdateMessageThrottled(Resumed(Throttle), "m1",
                                        ErrorStatus(life.cause), {"run"}))
  /\ life' = [life EXCEPT !.pc = "erroring"]
  /\ UNCHANGED <<now, meter, gate, pureVars, orchVars, recoveryVars, lockVars, backend>>

\* The error update has resolved: failActiveRequest, and the request ends.
LifeErrored ==
  /\ life.pc = "erroring"
  /\ "run" \in settled
  /\ SetThrottle(Resumed(Throttle))
  /\ life' = [life EXCEPT !.pc = "done",
                          !.saved = [state |-> "failed", error |-> life.error]]
  /\ UNCHANGED <<now, meter, gate, pureVars, orchVars, recoveryVars, lockVars, backend>>

\* The backend prompt returns: the timer is cleared, the request is completed
\* and the status message is being deleted.
LifePromptReturn ==
  /\ life.pc = "prompt"
  /\ life' = [life EXCEPT !.pc = "deleting", !.timer = FALSE, !.state = "completed"]
  /\ UNCHANGED <<throttleVars, gate, pureVars, orchVars, recoveryVars, lockVars, backend>>

\* deleteMessage has resolved: completeActiveRequest
LifeDeleted ==
  /\ life.pc = "deleting"
  /\ life' = [life EXCEPT !.pc = "done", !.deleted = TRUE,
                          !.saved = [state |-> "completed", error |-> ""]]
  /\ UNCHANGED <<throttleVars, gate, pureVars, orchVars, recoveryVars, lockVars, backend>>

\* ------------------------------------------------------------------ progress timer
\* The requests of one thread, numbered in the order of their turns; each has
\* its own status message. saved is the ActiveRequest of the session: of
\* which request it is the object, its state, and of which request it carries
\* the status, step, text, tools and todos.
TickRequests == 1..MaxTickRequests

TickKey(r) == IF r = 1 THEN "m1" ELSE IF r = 2 THEN "m2" ELSE "m3"

NoTick == [state |-> "none", fired |-> 0, nextTick |-> 0]

InitTicking ==
  [requests |-> [r \in 1..(MaxTickRequests + 1) |-> NoTick],
   saved |-> [of |-> 0, state |-> "none", content |-> 0],
   waiting |-> {},      \* the callbacks suspended in `await updateMessageThrottled`
   resumed |-> 0]       \* the request of the callback that resumed last

\* the callback that a progress timer calls: r whose closure it has, n its number
TickId(r, n) == [request |-> r, n |-> n]

\* updateActiveRequest(channelId, threadId, { the fields of the request
\* object r }): Object.assign to the ActiveRequest that the session holds now
UpdateActiveRequestOf(saved, r) ==
  IF saved.of = 0 THEN saved ELSE [saved EXCEPT !.content = r]

\* runOpenCodeRequest of the next turn, up to its await of the "Connecting"
\* update: the request is created, stored in the session and saved, the
\* interval is set; the turn before has ended
TickRequestStarts(r) ==
  /\ ticking.requests[r].state = "none"
  /\ SetThrottle(UpdateMessageThrottled(Throttle, TickKey(r), Lit("Connecting"),
                                        {TickId(r, 0)}))
  /\ IF r = 1 THEN TRUE ELSE ticking.requests[r - 1].state \in {"completed", "failed"}
  /\ ticking' = [ticking EXCEPT !.requests[r] = [state |-> "processing", fired |-> 0,
                                                 nextTick |-> now + PROGRESS_INTERVAL_MS],
                                !.saved = [of |-> r, state |-> "processing", content |-> r]]
  /\ UNCHANGED <<now, meter, gate, chunker, translator, store, upserts, swallowed, environ,
                 orchVars, recoveryVars, auxVars>>

\* The interval of request r fires while the request is processing: the
\* status text is sent through the throttled path, and the callback awaits it.
TickFires(r) ==
  LET rq == ticking.requests[r]
      id == TickId(r, rq.fired + 1)
  IN /\ rq.state = "processing"
     /\ rq.fired < MaxTicks
     /\ now >= rq.nextTick
     /\ SetThrottle(UpdateMessageThrottled(Throttle, TickKey(r), StatusText(rq.fired + 1),
                                           {id}))
     /\ ticking' = [ticking EXCEPT !.requests[r].fired = @ + 1,
                                   !.requests[r].nextTick = @ + PROGRESS_INTERVAL_MS,
                                   !.waiting = @ \cup {id}]
     /\ UNCHANGED <<now, meter, gate, chunker, translator, store, upserts, swallowed, environ,
                    orchVars, recoveryVars, auxVars>>

\* Half an interval of the progress timers passes.
TickClock ==
  /\ now + PROGRESS_INTERVAL_MS \div 2 <= StartTime + MaxTickElapsed
  /\ now' = now + PROGRESS_INTERVAL_MS \div 2
  /\ UNCHANGED <<lastUpdateTime, pendingUpdates, globalUpdateQueue, globalQueueProcessing,
                 globalLastUpdate, drain, edits, settled, meter, gate, pureVars, orchVars,
                 recoveryVars, auxVars>>

\* The promise that a callback awaits has resolved: updateActiveRequest
TickResumes(id) ==
  /\ id \in ticking.waiting
  /\ id \in settled
  /\ ticking' = [ticking EXCEPT !.waiting = @ \ {id},
                                !.resumed = id.request,
                                !.saved = UpdateActiveRequestOf(@, id.request)]
  /\ settled' = settled \ {id}
  /\ UNCHANGED <<now, lastUpdateTime, pendingUpdates, globalUpdateQueue,
                 globalQueueProcessing, globalLastUpdate, drain, edits, meter,
                 gate, chunker, translator, store, upserts, swallowed, environ, orchVars,
                 recoveryVars, auxVars>>

\* The prompt of request r, sent after the "Connecting" update resolved,
\* settles: clearInterval, the state is set; then the status message is
\* deleted or the error written, and completeActiveRequest or
\* failActiveRequest saves the session.
TickRequestEnds(r, final) ==
  /\ ticking.requests[r].state = "processing"
  /\ TickId(r, 0) \in settled
  /\ ticking' = [ticking EXCEPT !.requests[r].state = final,
                                !.saved.state = final]
  /\ UNCHANGED <<gate, chunker, translator, store, upserts, swallowed, environ, orchVars,
                 throttleVars, recoveryVars, auxVars>>

\* ------------------------------------------------------------------ the backend prompt lock
\* agents/opencode/client.ts sendMessage and withSessionLock, for the calls
\* made on one session key.  Each caller calls sendMessage once.
Callers == 1..MaxSenders

IdleSender == [pc |-> "idle", waitsOn |-> 0, seq |-> 0, result |-> ""]

\* the callers suspended in `await existing.catch(() => {})` on the promise of c
WaitersOn(ss, c) == {w \in Callers : ss[w].pc = "waiting" /\ ss[w].waitsOn = c}

\* the one of a non-empty set of callers that entered last
LastOf(ss, ws) == CHOOSE w \in ws : \A v \in ws : ss[v].seq <= ss[w].seq

\* sendMessage from ensureValidSession's return to its first await: the
\* controller in activeRequests is aborted and replaced, then withSessionLock
\* either awaits the promise in sessionLocks or calls fn and stores its promise.
SendEnter(c) ==
  /\ senders[c].pc = "idle"
  /\ arrivals' = arrivals + 1
  /\ abortedControllers' = IF activeRequests # 0 THEN abortedControllers \cup {activeRequests}
                           ELSE abortedControllers
  /\ activeRequests' = c
  /\ IF sessionLocks # 0
       THEN /\ senders' = [senders EXCEPT ![c] = [IdleSender EXCEPT !.pc = "waiting",
                                                   !.waitsOn = sessionLocks,
                                                   !.seq = arrivals + 1]]
            /\ UNCHANGED sessionLocks
       ELSE /\ senders' = [senders EXCEPT ![c] = [IdleSender EXCEPT !.pc = "client",
                                                   !.seq = arrivals + 1]]
            /\ sessionLocks' = c
  /\ UNCHANGED <<gate, pureVars, orchVars, throttleVars, recoveryVars, life, backend>>

\* fn: getSessionClient has resolved, client.session.prompt is called
SendPrompt(c) ==
  /\ senders[c].pc = "client"
  /\ senders' = [senders EXCEPT ![c].pc = "prompt"]
  /\ UNCHANGED <<sessionLocks, activeRequests, abortedControllers, arrivals,
                 gate, pureVars, orchVars, throttleVars, recoveryVars, life, backend>>

\* The promise of c's fn settles (the prompt returned or threw).  In promise
\* reaction order: c's withSessionLock resumes first and its finally deletes
\* the sessionLocks entry; then every caller that awaited c's promise resumes,
\* calls fn and stores its own promise; c's sendMessage finally deletes the
\* activeRequests entry.
SendSettles(c, result) ==
  LET ws == WaitersOn(senders, c)
  IN /\ senders[c].pc = "prompt"
     /\ senders' = [w \in Callers |->
                      IF w = c THEN [senders[c] EXCEPT !.pc = "done", !.result = result]
                      ELSE IF w \in ws THEN [senders[w] EXCEPT !.pc = "client", !.waitsOn = 0]
                      ELSE senders[w]]
     /\ sessionLocks' = IF ws = {} THEN 0 ELSE LastOf(senders, ws)
     /\ activeRequests' = 0
     /\ UNCHANGED <<abortedControllers, arrivals, gate, pureVars, orchVars, throttleVars, recoveryVars, life, backend>>

\* ------------------------------------------------------------------ backend sessions
\* agents/opencode/client.ts getOrCreateSession and createSession, over the
\* thread-to-session mapping of the settings and the per-session instances
\* and environments of agents/opencode/server.ts.
\* An environment is the list of the object's entries in insertion order; a
\* value and a rendered text are sequences of characters and names.
EnvEntry(key, value) == [key |-> key, value |-> value]

\* null: no environment, told apart from every object by an entry none has
Null == <<EnvEntry("null", <<>>)>>

\* no value returned (yet)
NoResult == [sessionId |-> 0, created |-> FALSE]

EnvEmpty == <<>>
EnvAB == <<EnvEntry("A", <<"x">>), EnvEntry("B", <<"y">>)>>
EnvBA == <<EnvEntry("B", <<"y">>), EnvEntry("A", <<"x">>)>>
EnvAy == <<EnvEntry("A", <<"y">>), EnvEntry("B", <<"y">>)>>
\* one entry whose value holds a line break
EnvLines == <<EnvEntry("A", <<"x", "\n", "B", "=", "y">>)>>

Envs == {EnvEmpty, EnvAB, EnvBA, EnvAy, EnvLines}

\* the order of Array.prototype.sort on the key names
KeyBefore(a, b) == a.key = "A" /\ b.key = "B"

\* normalizeSessionEnvironment without the sort: entries in insertion order
NormalizeUnsorted(env) ==
  IF env = Null THEN <<>>
  ELSE Join([i \in 1..Len(env) |-> <<env[i].key, "=">> \o env[i].value], <<"\n">>)

\* normalizeSessionEnvironment
NormalizeSessionEnvironment(env) ==
  IF env = Null THEN <<>>
  ELSE LET sorted == SortSeq(env, KeyBefore)
       IN Join([i \in 1..Len(sorted) |-> <<sorted[i].key, "=">> \o sorted[i].value],
               <<"\n">>)

SessionIds == 1..(MaxSessions + MaxRecreated)

IdleCall == [pc |-> "idle", env |-> Null, result |-> NoResult]

\* a SessionInstance as createSessionInstance's register makes it for id
NewInstance(valid, at) ==
  [validSessionIds |-> valid, handlers |-> {}, eventLoopRunning |-> TRUE, lastActive |-> at,
   awaitingReply |-> FALSE, closed |-> FALSE]

Handlers == {"h1", "h2"}

IdleSub == [pc |-> "idle", sessionId |-> 0, instance |-> 0, how |-> "none",
            unsubscribed |-> FALSE, invoked |-> FALSE, late |-> FALSE, missed |-> FALSE,
            afterStop |-> FALSE]

IdleSend == [pc |-> "idle", sessionId |-> 0, instance |-> 0, validSessionId |-> 0]

InitBackend ==
  [threadSessions |-> [t \in Threads |-> 0],
   sessionEnvironments |-> [s \in SessionIds |-> Null],
   sessionInstances |-> [s \in SessionIds |-> 0],
   instances |-> <<>>,
   created |-> 0,
   restarts |-> 0,
   calls |-> [t \in Threads |-> IdleCall],
   sessionStartPromises |-> {},
   sends |-> [c \in {"turn", "button"} |-> IdleSend],
   subs |-> [h \in Handlers |-> IdleSub],
   slash |-> <<>>,
   agentOverride |-> "",   \* settings: agentOverrides.agent of the channel; "": none
   now |-> StartTime,
   ticks |-> 0,
   sweeps |-> 0]

\* getSessionEnvironment
GetSessionEnvironment(b, s) == b.sessionEnvironments[s]

\* getOrCreateSession up to its return or to its await of createSession
GetOrCreateSession(b, t, env) ==
  LET existingSession == b.threadSessions[t]
      reuse == /\ existingSession # 0
               /\ NormalizeSessionEnvironment(GetSessionEnvironment(b, existingSession))
                    = NormalizeSessionEnvironment(env)
  IN IF reuse
       THEN [b EXCEPT !.calls[t] = [pc |-> "returned", env |-> env,
                                    result |-> [sessionId |-> existingSession,
                                                created |-> FALSE]]]
       ELSE [b EXCEPT !.calls[t] = [pc |-> "creating", env |-> env, result |-> NoResult]]

\* createSession has resolved: the backend session is created, its instance
\* and environment are registered under the new id; setOpenCodeSession, return.
CreateSessionDone(b, t) ==
  LET sessionId == b.created + 1
  IN [b EXCEPT !.created = sessionId,
               !.instances = Append(@, NewInstance({sessionId}, b.now)),
               !.sessionInstances[sessionId] = Len(b.instances) + 1,
               !.sessionEnvironments[sessionId] = b.calls[t].env,
               !.threadSessions[t] = sessionId,
               !.calls[t].pc = "returned",
               !.calls[t].result = [sessionId |-> sessionId, created |-> TRUE]]

\* handleUserMessageInternal calls getOrCreateSession for thread t
SessionCall(t, env) ==
  /\ backend.calls[t].pc \in {"idle", "returned", "thrown"}
  /\ backend' = GetOrCreateSession(backend, t, env)
  /\ UNCHANGED <<gate, pureVars, orchVars, throttleVars, recoveryVars, life, lockVars>>

SessionCreated(t) ==
  /\ backend.calls[t].pc = "creating"
  /\ backend.created < MaxSessions
  /\ backend' = CreateSessionDone(backend, t)
  /\ UNCHANGED <<gate, pureVars, orchVars, throttleVars, recoveryVars, life, lockVars>>

\* createSession throws (the instance does not start, or no id is returned)
SessionCreateFail(t) ==
  /\ backend.calls[t].pc = "creating"
  /\ backend' = [backend EXCEPT !.calls[t].pc = "thrown"]
  /\ UNCHANGED <<gate, pureVars, orchVars, throttleVars, recoveryVars, life, lockVars>>

\* The process restarts: the Maps of server.ts are empty again, the settings
\* file keeps the thread-to-session mapping.
Restart ==
  /\ backend.restarts < MaxRestarts
  /\ \A t \in Threads : backend.calls[t].pc # "creating"
  /\ \A c \in DOMAIN backend.sends : backend.sends[c].pc \in {"idle", "done", "thrown"}
  /\ \A h \in Handlers : backend.subs[h].pc = "idle" \/ backend.subs[h].unsubscribed
  /\ backend' = [InitBackend EXCEPT !.threadSessions = backend.threadSessions,
                                    !.created = backend.created,
                                    !.restarts = backend.restarts + 1,
                                    !.now = backend.now,
                                    !.ticks = backend.ticks,
                                    !.sweeps = backend.sweeps,
                                    !.slash = backend.slash,
                                    !.agentOverride = backend.agentOverride,
                                    !.calls = backend.calls]
  /\ UNCHANGED <<gate, pureVars, orchVars, throttleVars, recoveryVars, life, lockVars>>

\* slack/commands.ts, the config modal is submitted: the agent override of
\* the channel is set (a) or removed ("")
AgentOverrides == {"", "plan", "build"}

SetAgentOverride(a) ==
  /\ a # backend.agentOverride
  /\ backend' = [backend EXCEPT !.agentOverride = a]
  /\ UNCHANGED <<gate, pureVars, orchVars, throttleVars, recoveryVars, life, lockVars>>

\* ------------------------------------------------------------------ session validity
\* agents/opencode/server.ts getOrCreateSessionInstance and
\* ensureValidSession, and the head of client.ts sendMessage, for the two
\* handlers that send prompts on thread t1: a turn (runOpenCodeRequest) and a
\* button selection.
SendCallers == {"turn", "button"}

\* the instance registered under id s, and whether s was created in it
InstanceOf(b, s) == b.sessionInstances[s]

IsValidIn(b, s) ==
  InstanceOf(b, s) # 0 /\ s \in b.instances[InstanceOf(b, s)].validSessionIds

\* ensureValidSession resumed with its instance: return the id when it is
\* valid there, else call session.create and await it
EnsureWithInstance(b, c, s) ==
  IF IsValidIn(b, s)
    THEN [b EXCEPT !.sends[c] = [pc |-> "prompt", sessionId |-> s, instance |-> InstanceOf(b, s),
                                 validSessionId |-> s]]
    ELSE [b EXCEPT !.sends[c] = [pc |-> "creating", sessionId |-> s,
                                 instance |-> InstanceOf(b, s), validSessionId |-> 0]]

\* sendMessage(sessionId = s) from its entry: ensureValidSession calls
\* getOrCreateSessionInstance, which returns the instance registered under s,
\* or the pending start of one, or starts one (createOpencode is awaited).
EnsureValidSession(b, c, s) ==
  IF InstanceOf(b, s) # 0
    THEN EnsureWithInstance([b EXCEPT !.instances[InstanceOf(b, s)].lastActive = b.now], c, s)
  ELSE [b EXCEPT !.sessionStartPromises = @ \cup {s},
                 !.sends[c] = [pc |-> "instance", sessionId |-> s, instance |-> 0,
                               validSessionId |-> 0]]

\* a handler calls sendMessage with the session id stored for the thread
SendStart(c) ==
  /\ backend.sends[c].pc = "idle"
  /\ backend.threadSessions["t1"] # 0
  /\ backend' = EnsureValidSession(backend, c, backend.threadSessions["t1"])
  /\ UNCHANGED <<gate, pureVars, orchVars, throttleVars, recoveryVars, life, lockVars>>

\* the turn sends its next prompt (the build request after planning) with the
\* session id it was given when it started
SendAgain(c) ==
  /\ c = "turn"
  /\ backend.sends[c].pc = "done"
  /\ backend' = EnsureValidSession(backend, c, backend.sends[c].sessionId)
  /\ UNCHANGED <<gate, pureVars, orchVars, throttleVars, recoveryVars, life, lockVars>>

RECURSIVE ResumeAll(_, _, _)
\* every caller of cs resumes from the start promise of id s
ResumeAll(b, cs, s) ==
  IF cs = {} THEN b
  ELSE LET c == CHOOSE x \in cs : TRUE
       IN ResumeAll(EnsureWithInstance(b, c, s), cs \ {c}, s)

\* createOpencode has resolved for id s: the instance is registered under s
\* with no valid session id, its event loop is started, and every caller
\* awaiting the start goes on; the handlers subscribeToSession queued on the
\* start are added to the instance.
InstanceReady(s) ==
  LET i == Len(backend.instances) + 1
      hs == {h \in Handlers : backend.subs[h].pc = "queued" /\ backend.subs[h].sessionId = s}
      b1 == [backend EXCEPT !.instances = Append(@, [NewInstance({}, backend.now) EXCEPT !.handlers = hs]),
                            !.sessionInstances[s] = i,
                            !.sessionStartPromises = @ \ {s},
                            !.subs = [h \in Handlers |->
                                        IF h \in hs THEN [@[h] EXCEPT !.pc = "attached",
                                                                      !.instance = i]
                                        ELSE @[h]]]
      cs == {c \in SendCallers : backend.sends[c].pc = "instance"
                                 /\ backend.sends[c].sessionId = s}
  IN /\ s \in backend.sessionStartPromises
     /\ Len(backend.instances) < MaxInstances
     /\ backend' = ResumeAll(b1, cs, s)
     /\ UNCHANGED <<gate, pureVars, orchVars, throttleVars, recoveryVars, life, lockVars>>

\* session.create has resolved for caller c: the new id is valid in the
\* caller's instance, which is registered under it in place of the old id;
\* sendMessage stores the new id for the thread (its context names the
\* thread) and goes on to its prompt.
ValidCreated(c) ==
  LET s == backend.sends[c].sessionId
      i == backend.sends[c].instance
      newSessionId == backend.created + 1
  IN /\ backend.sends[c].pc = "creating"
     /\ backend.created < MaxSessions + MaxRecreated
     /\ backend' = [backend EXCEPT !.created = newSessionId,
                                   !.instances[i].validSessionIds = @ \cup {newSessionId},
                                   !.sessionInstances =
                                      [[@ EXCEPT ![s] = 0] EXCEPT ![newSessionId] = i],
                                   !.threadSessions["t1"] = newSessionId,
                                   !.sends[c].pc = "prompt",
                                   !.sends[c].validSessionId = newSessionId]
     /\ UNCHANGED <<gate, pureVars, orchVars, throttleVars, recoveryVars, life, lockVars>>

\* session.create yields no id: ensureValidSession throws
ValidCreateFail(c) ==
  /\ backend.sends[c].pc = "creating"
  /\ backend' = [backend EXCEPT !.sends[c].pc = "thrown"]
  /\ UNCHANGED <<gate, pureVars, orchVars, throttleVars, recoveryVars, life, lockVars>>

\* the prompt of caller c has settled
SendDone(c) ==
  /\ backend.sends[c].pc = "prompt"
  /\ backend' = [backend EXCEPT !.sends[c].pc = "done"]
  /\ UNCHANGED <<gate, pureVars, orchVars, throttleVars, recoveryVars, life, lockVars>>

\* ------------------------------------------------------------------ environment overrides
\* agents/opencode/server.ts withEnvOverrides, as getOrCreateSessionInstance
\* and createSessionInstance call it around createOpencode. The environment
\* has the variables A and B; "" stands for a variable that is not set.
EnvKeys == {"A", "B"}

BaseEnv == [k \in EnvKeys |-> IF k = "A" THEN "" ELSE "b"]

\* the overrides of a creation: per variable its value, "-" where it has none
NoOverrides == [k \in EnvKeys |-> "-"]

Overrides ==
  {NoOverrides,
   [k \in EnvKeys |-> IF k = "A" THEN "x" ELSE "-"],
   [k \in EnvKeys |-> IF k = "A" THEN "z" ELSE "y"]}

Creations == 1..MaxCreations

NoCreation == [pc |-> "idle", overrides |-> NoOverrides, previous |-> BaseEnv, seen |-> BaseEnv]

InitEnviron ==
  [env |-> BaseEnv,                       \* process.env
   queue |-> <<>>,                        \* the runs chained on envQueue, not started
   running |-> 0,                         \* the run between its loop and its finally
   creations |-> [c \in Creations |-> NoCreation]]

\* the environment with the overrides ov applied
Applied(env, ov) == [k \in EnvKeys |-> IF ov[k] = "-" THEN env[k] ELSE ov[k]]

\* the finally block of run: the variables of ov get their previous values
Restored(env, ov, previous) == [k \in EnvKeys |-> IF ov[k] = "-" THEN env[k] ELSE previous[k]]

\* withEnvOverrides(ov, fn) up to its return: without overrides fn is called
\* at once, and createOpencode starts the backend with the environment of
\* that moment; with overrides run is chained on envQueue
StartCreation(e, c, ov) ==
  IF ov = NoOverrides
    THEN [e EXCEPT !.creations[c] = [NoCreation EXCEPT !.pc = "starting", !.seen = e.env]]
    ELSE [e EXCEPT !.queue = Append(@, c),
                   !.creations[c] = [NoCreation EXCEPT !.pc = "queued", !.overrides = ov]]

\* A backend instance is asked for with the overrides ov.
CreateCall(c, ov) ==
  /\ environ.creations[c].pc = "idle"
  /\ IF c = 1 THEN TRUE ELSE environ.creations[c - 1].pc # "idle"
  /\ environ' = StartCreation(environ, c, ov)
  /\ UNCHANGED <<gate, chunker, translator, store, upserts, swallowed, ticking, orchVars,
                 throttleVars, recoveryVars, auxVars>>

\* The run at the head of envQueue starts, the one before it having settled:
\* the previous values are kept, the overrides set, fn called.
RunStarts ==
  /\ environ.running = 0
  /\ Len(environ.queue) > 0
  /\ LET c == Head(environ.queue)
         ov == environ.creations[c].overrides
     IN environ' = [environ EXCEPT !.queue = Tail(@),
                                   !.running = c,
                                   !.env = Applied(@, ov),
                                   !.creations[c].pc = "starting",
                                   !.creations[c].previous = environ.env,
                                   !.creations[c].seen = Applied(environ.env, ov)]
  /\ UNCHANGED <<gate, chunker, translator, store, upserts, swallowed, ticking, orchVars,
                 throttleVars, recoveryVars, auxVars>>

\* createOpencode of creation c resolves or rejects; the finally block of its
\* run, if it has one, restores the environment.
CreateSettles(c) ==
  /\ environ.creations[c].pc = "starting"
  /\ environ' = IF environ.running = c
                  THEN [environ EXCEPT !.running = 0,
                                       !.env = Restored(@, environ.creations[c].overrides,
                                                        environ.creations[c].previous),
                                       !.creations[c].pc = "done"]
                  ELSE [environ EXCEPT !.creations[c].pc = "done"]
  /\ UNCHANGED <<gate, chunker, translator, store, upserts, swallowed, ticking, orchVars,
                 throttleVars, recoveryVars, auxVars>>

\* ------------------------------------------------------------------ event subscriptions
\* agents/opencode/server.ts subscribeToSession, the unsubscribe function it
\* returns, and the dispatch of startSessionEventLoop. A handler is a closure
\* of one watcher; invoked and late record what the dispatch did with it.

\* ensureSession(s), as startEventStreamWatcher calls it before subscribing
EnsureSession(s) ==
  /\ s = backend.threadSessions["t1"]
  /\ InstanceOf(backend, s) = 0
  /\ s \notin backend.sessionStartPromises
  /\ backend' = [backend EXCEPT !.sessionStartPromises = @ \cup {s}]
  /\ UNCHANGED <<gate, pureVars, orchVars, throttleVars, recoveryVars, life, lockVars>>

\* subscribeToSession(s, h) with the session id stored for the thread
SubscribeToSession(h) ==
  LET s == backend.threadSessions["t1"]
      i == InstanceOf(backend, s)
  IN /\ backend.subs[h].pc = "idle"
     /\ s # 0
     /\ backend' =
          IF i # 0
            THEN [backend EXCEPT !.instances[i].handlers = @ \cup {h},
                                 !.subs[h] = [@ EXCEPT !.pc = "attached", !.sessionId = s,
                                                       !.instance = i, !.how = "sync"]]
            ELSE [backend EXCEPT !.sessionStartPromises = @ \cup {s},
                                 !.subs[h] = [@ EXCEPT !.pc = "queued", !.sessionId = s,
                                                       !.how = "async"]]
     /\ UNCHANGED <<gate, pureVars, orchVars, throttleVars, recoveryVars, life, lockVars>>

\* the function subscribeToSession returned is called
Unsubscribe(h) ==
  LET i == InstanceOf(backend, backend.subs[h].sessionId)
  IN /\ backend.subs[h].pc \in {"queued", "attached"}
     /\ ~backend.subs[h].unsubscribed
     /\ backend' =
          IF i # 0
            THEN [backend EXCEPT !.instances[i].handlers = @ \ {h},
                                 !.subs[h].unsubscribed = TRUE]
            ELSE [backend EXCEPT !.subs[h].unsubscribed = TRUE]
     /\ UNCHANGED <<gate, pureVars, orchVars, throttleVars, recoveryVars, life, lockVars>>

\* the event loop of instance i receives an event and dispatches it to the
\* handlers of the instance
Dispatch(b, i) ==
  [b EXCEPT !.subs =
     [h \in Handlers |->
        IF h \in b.instances[i].handlers
          THEN [b.subs[h] EXCEPT !.invoked = TRUE,
                                 !.late = @ \/ b.subs[h].unsubscribed,
                                 !.afterStop = @ \/ b.instances[i].closed]
          ELSE [b.subs[h] EXCEPT !.missed =
                  @ \/ (b.subs[h].pc = "attached" /\ b.subs[h].instance = i
                        /\ ~b.subs[h].unsubscribed /\ ~b.instances[i].closed)]]]

EventReceived(i) ==
  /\ i \in 1..Len(backend.instances)
  /\ backend.instances[i].eventLoopRunning
  /\ ~backend.instances[i].awaitingReply
  /\ backend' = Dispatch([backend EXCEPT !.instances[i].lastActive = backend.now], i)
  /\ UNCHANGED <<gate, pureVars, orchVars, throttleVars, recoveryVars, life, lockVars>>

\* the event loop of instance i receives a permission.asked event and awaits
\* the reply it sends
PermissionAsked(i) ==
  /\ i \in 1..Len(backend.instances)
  /\ backend.instances[i].eventLoopRunning
  /\ ~backend.instances[i].awaitingReply
  /\ backend' = [backend EXCEPT !.instances[i].lastActive = backend.now,
                                !.instances[i].awaitingReply = TRUE]
  /\ UNCHANGED <<gate, pureVars, orchVars, throttleVars, recoveryVars, life, lockVars>>

\* the reply has settled: the event is dispatched to the handlers
PermissionReplied(i) ==
  /\ i \in 1..Len(backend.instances)
  /\ backend.instances[i].awaitingReply
  /\ backend' = Dispatch([backend EXCEPT !.instances[i].awaitingReply = FALSE], i)
  /\ UNCHANGED <<gate, pureVars, orchVars, throttleVars, recoveryVars, life, lockVars>>

\* ------------------------------------------------------------------ idle sweep
\* agents/opencode/server.ts: the cleanup interval and stopSessionInstance
INACTIVE_TIMEOUT_MS == 600000

\* the test with the instances of exactly ten minutes included
IsInactiveAtThreshold(inst, at) == at - inst.lastActive >= INACTIVE_TIMEOUT_MS

\* the test of the sweep on one instance
IsInactive(inst, at) == at - inst.lastActive > INACTIVE_TIMEOUT_MS

\* stopSessionInstance(s)
StopSessionInstance(b, s) ==
  LET i == b.sessionInstances[s]
  IN IF i = 0 THEN b
     ELSE [b EXCEPT !.instances[i].eventLoopRunning = FALSE,
                    !.instances[i].handlers = {},
                    !.instances[i].closed = TRUE,
                    !.sessionInstances[s] = 0]

RECURSIVE SweepFrom(_, _, _)
\* the loop of the sweep over the keys s, s+1, ... of sessionInstances
SweepFrom(b, s, at) ==
  IF s \notin SessionIds THEN b
  ELSE LET i == b.sessionInstances[s]
       IN SweepFrom(IF i # 0 /\ IsInactive(b.instances[i], at)
                      THEN StopSessionInstance(b, s) ELSE b,
                    s + 1, at)

\* the cleanup interval fires
Sweep ==
  /\ backend.sweeps < MaxSweeps
  /\ backend' = [SweepFrom(backend, 1, backend.now) EXCEPT !.sweeps = @ + 1]
  /\ UNCHANGED <<gate, pureVars, orchVars, throttleVars, recoveryVars, life, lockVars>>

\* five minutes pass
BackendTick ==
  /\ backend.ticks < MaxBackendTicks
  /\ backend' = [backend EXCEPT !.now = @ + 5 * 60 * 1000, !.ticks = @ + 1]
  /\ UNCHANGED <<gate, pureVars, orchVars, throttleVars, recoveryVars, life, lockVars>>

\* ------------------------------------------------------------------ inbound events
\* slack/client.ts setupMessageHandlers: the message handler and the
\* app_mention handler, for the messages of thread t1, with the settings'
\* activeThreads map (markThreadActive, isThreadActive).
\* A text is the mentions it contains, whether it contains the word stop,
\* and whether it contains any other words. A mention is <@ID>: who it names
\* and the first letter of the id (user ids begin with U or W).
ACTIVE_THREAD_WINDOW_MS == 86400000

BotMention == [who |-> "bot", prefix |-> "U"]
OtherU == [who |-> "other", prefix |-> "U"]
OtherW == [who |-> "other", prefix |-> "W"]

Text(mentions, stop, words) == [mentions |-> mentions, stop |-> stop, words |-> words]

Texts ==
  {Text({}, FALSE, TRUE), Text({BotMention}, FALSE, TRUE), Text({BotMention}, FALSE, FALSE),
   Text({OtherU}, FALSE, TRUE), Text({OtherW}, FALSE, TRUE),
   Text({BotMention, OtherU}, FALSE, TRUE)}

StopTexts ==
  {Text({BotMention}, FALSE, TRUE), Text({}, TRUE, FALSE), Text({BotMention}, TRUE, FALSE)}

\* text.includes(`<@${botUserId}>`)
IsMention(text) == BotMention \in text.mentions

\* /<@U[A-Z0-9]+>/g.test(text)
MatchesUserMention(text) == \E m \in text.mentions : m.prefix = "U"

MentionsOthers(text) == MatchesUserMention(text) /\ ~IsMention(text)

\* /\bstop\b/i.test(text)
MatchesStop(text) == text.stop

\* cleanText, the text without the bot's mentions, trimmed, is empty
CleanTextEmpty(text) == text.mentions \ {BotMention} = {} /\ ~text.stop /\ ~text.words

\* isThreadActive
IsThreadActive(g, t) ==
  LET timestamp == g.activeThreads[t]
  IN timestamp # 0 /\ g.now - timestamp < ACTIVE_THREAD_WINDOW_MS

\* markThreadActive
MarkThreadActive(g, t) == [g EXCEPT !.activeThreads[t] = g.now]

\* the test handleStopCommand makes on the session's ActiveRequest
IsProcessing(t) ==
  /\ sessions[t].exists
  /\ sessions[t].activeRequest # 0
  /\ runs[t][sessions[t].activeRequest].state = "processing"

NoEvent == [pc |-> "none", processing |-> FALSE, at |-> 0, activeBefore |-> 0]

InitGate == [now |-> StartTime, ticks |-> 0, activeThreads |-> [t \in Threads |-> 0],
             msgs |-> <<>>]

\* what a handler finds when it starts on an event
Seen(t) == [pc |-> "pending", processing |-> IsProcessing(t), at |-> gate.now,
            activeBefore |-> gate.activeThreads[t]]

\* a user posts a message in thread t1: the chat will deliver its message
\* event, and its app_mention event when the text mentions the bot
UserPosts(text) ==
  /\ Len(gate.msgs) < MaxGateMsgs
  /\ gate' = [gate EXCEPT !.msgs = Append(@,
       [text |-> text,
        message |-> [NoEvent EXCEPT !.pc = "pending"],
        mention |-> IF IsMention(text) THEN [NoEvent EXCEPT !.pc = "pending"] ELSE NoEvent])]
  /\ UNCHANGED <<orchVars, sideVars>>

\* both handlers from markThreadActive on: the greeting for an empty text,
\* else handleUserMessage with the message ts
Accept(n, ev) ==
  LET text == gate.msgs[n].text
      id == MsgId("t1", n, FALSE)
      g1 == MarkThreadActive(gate, "t1")
  IN IF CleanTextEmpty(text)
       THEN /\ gate' = [g1 EXCEPT !.msgs[n][ev] = [Seen("t1") EXCEPT !.pc = "greeted"]]
            /\ UNCHANGED <<orchVars, sideVars>>
       ELSE /\ gate' = [g1 EXCEPT !.msgs[n][ev] =
                          [Seen("t1") EXCEPT !.pc =
                             IF IsMessageProcessed(processedMessages, id)
                               THEN "duplicate" ELSE "enqueued"]]
            /\ HandleUserMessage("t1", id)
            /\ UNCHANGED <<sent, redelivered>>

\* the message handler on the message event of message n
MessageEvent(n) ==
  LET text == gate.msgs[n].text
  IN /\ n \in 1..Len(gate.msgs)
     /\ gate.msgs[n].message.pc = "pending"
     /\ IF MatchesStop(text) /\ IsProcessing("t1")
          THEN /\ HandleStopCommand("t1")
               /\ gate' = [gate EXCEPT !.msgs[n].message = [Seen("t1") EXCEPT !.pc = "stopped"]]
          ELSE IF (~IsMention(text) /\ ~IsThreadActive(gate, "t1")) \/ MentionsOthers(text)
          THEN /\ gate' = [gate EXCEPT !.msgs[n].message = [Seen("t1") EXCEPT !.pc = "ignored"]]
               /\ UNCHANGED <<orchVars, sideVars>>
          ELSE Accept(n, "message")

\* the app_mention handler on the app_mention event of message n
MentionEvent(n) ==
  /\ n \in 1..Len(gate.msgs)
  /\ gate.msgs[n].mention.pc = "pending"
  /\ Accept(n, "mention")

\* time passes
GateTick ==
  /\ gate.ticks < MaxGateTicks
  /\ gate' = [gate EXCEPT !.now = @ + 12 * 60 * 60 * 1000, !.ticks = @ + 1]
  /\ UNCHANGED <<orchVars, sideVars>>

\* ------------------------------------------------------------------ session store
\* storage/sessions.ts. A conversation is a channel id and a thread id, each a
\* sequence of characters. A session record carries the conversation it was
\* made for and is written as the state of its ActiveRequest: "idle" (a
\* session without a request), "processing", "completed", "failed"; obj tells
\* the objects in memory apart (0: the content of a file).
Chan1 == <<"C", "1">>
Chan2 == <<"C", "2">>
ThreadDot == <<"1", ".", "5">>
ThreadColon == <<"1", ":", "5">>

Conversations == {<<Chan1, ThreadDot>>, <<Chan1, ThreadColon>>, <<Chan2, ThreadDot>>}

\* getSessionKey
GetSessionKey(conv) == conv[1] \o <<"-">> \o conv[2]

\* the characters of the keys that /[^a-zA-Z0-9-]/ does not match
SafeChars == {"C", "1", "2", "5", "-"}

\* getSessionFilePath: the file name made from the key
GetSessionFilePath(key) ==
  [i \in 1..Len(key) |-> IF key[i] \in SafeChars THEN key[i] ELSE "_"]

\* the file of a conversation
FileOf(conv) == GetSessionFilePath(GetSessionKey(conv))

SessionKeys == {GetSessionKey(c) : c \in Conversations}

NoRecord == [conv |-> <<>>, state |-> "absent", obj |-> 0]

InitStore ==
  [activeSessions |-> [k \in SessionKeys |-> NoRecord],
   files |-> [f \in {FileOf(c) : c \in Conversations} |-> NoRecord],
   objects |-> 0,                                       \* session objects made so far
   latest |-> [c \in Conversations |-> "absent"],       \* the state last saved for c
   writeFailed |-> [c \in Conversations |-> FALSE],     \* the write of that save failed
   observed |-> [c \in Conversations |-> "unread"],     \* what a load returned since
   threw |-> FALSE,
   saves |-> 0,
   key |-> <<>>,          \* the conversation of the last saveSession
   conv |-> <<>>,         \* the conversation of the last operation
   op |-> "none"]

\* loadSession(conv): the store afterwards (the cache is filled from the file)
LoadSession(st, conv) ==
  LET k == GetSessionKey(conv)
      onDisk == st.files[GetSessionFilePath(k)]
  IN IF st.activeSessions[k] # NoRecord
       THEN [st EXCEPT !.observed[conv] = st.activeSessions[k].state]
     ELSE IF onDisk = NoRecord
       THEN [st EXCEPT !.observed[conv] = "absent"]
     ELSE [st EXCEPT !.activeSessions[k] = [onDisk EXCEPT !.obj = st.objects + 1],
                     !.objects = @ + 1,
                     !.observed[conv] = onDisk.state]

\* loadSession(conv): the record returned
LoadedSession(st, conv) == LoadSession(st, conv).activeSessions[GetSessionKey(conv)]

\* an assignment to the ActiveRequest of the object rec: every cache entry
\* that holds the object shows it
Assign(st, rec, v) ==
  [st EXCEPT !.activeSessions =
     [k \in SessionKeys |-> IF st.activeSessions[k].obj = rec.obj
                              THEN [st.activeSessions[k] EXCEPT !.state = v]
                              ELSE st.activeSessions[k]]]

\* saveSession(rec), called by an operation on conv; ok: writeFileSync succeeds
SaveSession(st, conv, rec, ok) ==
  LET k == GetSessionKey(rec.conv)
  IN [st EXCEPT !.activeSessions[k] = rec,
                !.files[GetSessionFilePath(k)] = IF ok THEN [rec EXCEPT !.obj = 0] ELSE @,
                !.latest[conv] = rec.state,
                !.writeFailed[conv] = ~ok,
                !.observed[conv] = "unread",
                !.key = conv,
                !.saves = @ + 1]

\* load, assign v to the request of the loaded session, save
Resave(st, conv, v, ok) ==
  LET rec == LoadedSession(st, conv)
  IN SaveSession(Assign(LoadSession(st, conv), rec, v), conv, [rec EXCEPT !.state = v], ok)

\* handleUserMessageInternal and runOpenCodeRequest: the session of the turn
\* is loaded or made, and gets its ActiveRequest
StoreActiveRequest(conv, ok) ==
  /\ store.saves < MaxSaves
  /\ LET st == LoadSession(store, conv)
         fresh == [conv |-> conv, state |-> "processing", obj |-> st.objects + 1]
     IN store' =
          IF LoadedSession(store, conv) = NoRecord
            THEN [SaveSession([st EXCEPT !.objects = @ + 1], conv, fresh, ok)
                    EXCEPT !.op = "store", !.conv = conv]
            ELSE [Resave(store, conv, "processing", ok) EXCEPT !.op = "store", !.conv = conv]
  /\ UNCHANGED <<gate, swallowed, ticking, environ, chunker, translator, upserts, orchVars, throttleVars, recoveryVars, auxVars>>

\* completeActiveRequest (final = "completed") and failActiveRequest
\* (final = "failed") of the session store
EndActiveRequest(conv, final, ok) ==
  /\ store.saves < MaxSaves
  /\ store' = IF LoadedSession(store, conv).state \in {"absent", "idle"}
                THEN [LoadSession(store, conv) EXCEPT !.op = "end", !.conv = conv]
                ELSE [Resave(store, conv, final, ok) EXCEPT !.op = "end", !.conv = conv]
  /\ UNCHANGED <<gate, swallowed, ticking, environ, chunker, translator, upserts, orchVars, throttleVars, recoveryVars, auxVars>>

\* updateActiveRequest: the fields of the request are assigned, its state stays
UpdateActiveRequest(conv, ok) ==
  /\ store.saves < MaxSaves
  /\ LoadedSession(store, conv).state \notin {"absent", "idle"}
  /\ store' = [Resave(store, conv, LoadedSession(store, conv).state, ok)
                 EXCEPT !.op = "update", !.conv = conv]
  /\ UNCHANGED <<gate, swallowed, ticking, environ, chunker, translator, upserts, orchVars, throttleVars, recoveryVars, auxVars>>

\* clearActiveRequest
ClearActiveRequest(conv, ok) ==
  /\ store.saves < MaxSaves
  /\ LoadedSession(store, conv) # NoRecord
  /\ store' = [Resave(store, conv, "idle", ok) EXCEPT !.op = "clear", !.conv = conv]
  /\ UNCHANGED <<gate, swallowed, ticking, environ, chunker, translator, upserts, orchVars, throttleVars, recoveryVars, auxVars>>

GetActiveRequest(conv) ==
  /\ store.observed[conv] = "unread"
  /\ store' = [LoadSession(store, conv) EXCEPT !.op = "get", !.conv = conv]
  /\ UNCHANGED <<gate, swallowed, ticking, environ, chunker, translator, upserts, orchVars, throttleVars, recoveryVars, auxVars>>

RECURSIVE CacheFiles(_, _)
\* the loop of loadAllSessions over the files fs: each is parsed and put into
\* the cache under the key of the conversation it names
CacheFiles(st, fs) ==
  IF fs = {} THEN st
  ELSE LET f == CHOOSE x \in fs : TRUE
           rec == st.files[f]
       IN CacheFiles(IF rec = NoRecord THEN st
                     ELSE [st EXCEPT !.activeSessions[GetSessionKey(rec.conv)] =
                                       [rec EXCEPT !.obj = st.objects + 1],
                                     !.objects = @ + 1],
                     fs \ {f})

\* loadAllSessions: every session file is read and put into the cache
LoadAllSessions ==
  /\ \E f \in DOMAIN store.files :
       /\ store.files[f] # NoRecord
       /\ store.activeSessions[GetSessionKey(store.files[f].conv)].state # store.files[f].state
  /\ store' = [CacheFiles(store, DOMAIN store.files) EXCEPT !.op = "loadAll", !.conv = <<>>]
  /\ UNCHANGED <<gate, swallowed, ticking, environ, chunker, translator, upserts, orchVars, throttleVars, recoveryVars, auxVars>>

\* ------------------------------------------------------------------ plan message
\* slack/client.ts upsertPlanMessage, called without await by the watcher for
\* every todo.updated event (onTodoUpdate)
InitUpserts ==
  [messageTs |-> 0,       \* session.plan.messageTs; 0: not set
   todos |-> <<>>,        \* session.plan.todos
   calls |-> <<>>,        \* the upsertPlanMessage calls: where each is, with its todos
   posts |-> <<>>,        \* the plan messages posted to the chat, by their todos
   planEdits |-> <<>>,    \* the chat.update calls: message and todos
   overlapped |-> 0]      \* calls that began while a post of another call was awaited

\* a todo.updated event arrives: upsertPlanMessage up to its await
UpsertPlanMessage(todos) ==
  /\ Len(upserts.calls) < MaxUpserts
  /\ upserts' =
       IF Len(todos) = 0
         THEN [upserts EXCEPT !.calls = Append(@, [pc |-> "done", todos |-> todos, ts |-> 0])]
       ELSE IF upserts.messageTs # 0
         THEN [upserts EXCEPT !.todos = todos,
                              !.calls = Append(@, [pc |-> "updating", todos |-> todos,
                                                   ts |-> upserts.messageTs])]
       ELSE [upserts EXCEPT !.todos = todos,
                            !.calls = Append(@, [pc |-> "posting", todos |-> todos, ts |-> 0]),
                            !.overlapped =
                               IF \E k \in 1..Len(upserts.calls) : upserts.calls[k].pc = "posting"
                                 THEN @ + 1 ELSE @]
  /\ UNCHANGED <<gate, swallowed, ticking, environ, chunker, translator, store, orchVars, throttleVars, recoveryVars, auxVars>>

\* the sendMessage of call k settles: ok, the message is posted and its ts
\* stored in the plan; otherwise chat.postMessage rejected
PlanPostSettled(k, ok) ==
  /\ k \in 1..Len(upserts.calls)
  /\ upserts.calls[k].pc = "posting"
  /\ upserts' =
       IF ok
         THEN [upserts EXCEPT !.posts = Append(@, upserts.calls[k].todos),
                              !.messageTs = Len(upserts.posts) + 1,
                              !.calls[k].pc = "done",
                              !.calls[k].ts = Len(upserts.posts) + 1]
         ELSE [upserts EXCEPT !.calls[k].pc = "thrown"]
  /\ UNCHANGED <<gate, swallowed, ticking, environ, chunker, translator, store, orchVars, throttleVars, recoveryVars, auxVars>>

\* the updateMessageThrottled of call k settles
PlanUpdateSettled(k) ==
  /\ k \in 1..Len(upserts.calls)
  /\ upserts.calls[k].pc = "updating"
  /\ upserts' = [upserts EXCEPT !.planEdits = Append(@, [ts |-> upserts.calls[k].ts,
                                                         todos |-> upserts.calls[k].todos]),
                                !.calls[k].pc = "done"]
  /\ UNCHANGED <<gate, swallowed, ticking, environ, chunker, translator, store, orchVars, throttleVars, recoveryVars, auxVars>>

\* ------------------------------------------------------------------ chunking
\* slack/formatter.ts splitForSlack, one loop iteration per step, and the
\* posting loop of slack/client.ts sendMessage. A text is a sequence of
\* characters; indexes are those of the code (from 0).
Chars == {"a", " ", "\n"}

Whitespace == {" ", "\n"}

\* the texts of length n
RECURSIVE TextsOfLen(_)
TextsOfLen(n) ==
  IF n = 0 THEN {<<>>}
  ELSE {Append(s, c) : s \in TextsOfLen(n - 1), c \in Chars}

\* String.prototype.lastIndexOf(c, from)
LastIndexOf(s, c, from) ==
  LET found == {i \in 0..(Len(s) - 1) : i <= from /\ s[i + 1] = c}
  IN IF found = {} THEN -1 ELSE CHOOSE i \in found : \A j \in found : j <= i

\* String.prototype.slice(from) and slice(0, to)
SliceFrom(s, from) == SubSeq(s, from + 1, Len(s))

SliceTo(s, to) == SubSeq(s, 1, IF to < Len(s) THEN to ELSE Len(s))

RECURSIVE TrimStart(_)
\* String.prototype.trimStart
TrimStart(s) ==
  IF Len(s) > 0 /\ s[1] \in Whitespace THEN TrimStart(Tail(s)) ELSE s

\* a splitIndex that looks one character past the limit
SplitIndexPastLimit(remaining, maxLength) ==
  IF Len(remaining) > maxLength /\ remaining[maxLength + 1] \in Whitespace
    THEN maxLength + 1 ELSE maxLength

\* the splitIndex one loop iteration computes
SplitIndex(remaining, maxLength) ==
  LET atNewline == LastIndexOf(remaining, "\n", maxLength)
      afterNewline == IF atNewline = -1 \/ 2 * atNewline < maxLength
                        THEN LastIndexOf(remaining, " ", maxLength)
                        ELSE atNewline
  IN IF afterNewline = -1 \/ 2 * afterNewline < maxLength THEN maxLength ELSE afterNewline

IdleChunker == [pc |-> "idle", text |-> <<>>, maxLength |-> 0, chunks |-> <<>>,
                remaining |-> <<>>, splits |-> <<>>, posted |-> <<>>]

\* splitForSlack(text, maxLength) up to its early return or to the loop
SplitForSlack(text, maxLength) ==
  /\ chunker.pc = "idle"
  /\ chunker' =
       IF Len(text) <= maxLength
         THEN [IdleChunker EXCEPT !.pc = "returned", !.text = text, !.maxLength = maxLength,
                                  !.chunks = <<text>>]
         ELSE [IdleChunker EXCEPT !.pc = "loop", !.text = text, !.maxLength = maxLength,
                                  !.remaining = text]
  /\ UNCHANGED <<gate, swallowed, ticking, environ, translator, store, upserts, orchVars, throttleVars, recoveryVars, auxVars>>

\* one iteration of the while loop; splits records, per chunk pushed in the
\* loop, the window the iteration saw and the index it cut at
SplitLoop ==
  LET remaining == chunker.remaining
      maxLength == chunker.maxLength
      splitIndex == SplitIndex(remaining, maxLength)
  IN /\ chunker.pc = "loop"
     /\ Len(chunker.chunks) <= MaxTextLen
     /\ chunker' =
          IF Len(remaining) = 0 THEN [chunker EXCEPT !.pc = "returned"]
          ELSE IF Len(remaining) <= maxLength
            THEN [chunker EXCEPT !.chunks = Append(@, remaining), !.pc = "returned"]
          ELSE [chunker EXCEPT !.chunks = Append(@, SliceTo(remaining, splitIndex)),
                               !.splits = Append(@, [window |-> remaining, at |-> splitIndex]),
                               !.remaining = TrimStart(SliceFrom(remaining, splitIndex))]
     /\ UNCHANGED <<gate, swallowed, ticking, environ, translator, store, upserts, orchVars, throttleVars, recoveryVars, auxVars>>

\* sendMessage: chat.postMessage for the next chunk has returned
PostChunk ==
  /\ chunker.pc = "returned"
  /\ Len(chunker.posted) < Len(chunker.chunks)
  /\ chunker' = [chunker EXCEPT !.posted = Append(@, chunker.chunks[Len(chunker.posted) + 1])]
  /\ UNCHANGED <<gate, swallowed, ticking, environ, translator, store, upserts, orchVars, throttleVars, recoveryVars, auxVars>>

\* ------------------------------------------------------------------ event translation
\* agents/opencode/client.ts statusFromEvent, statusFromSessionStatus and
\* statusFromPart. Session ids are 1 (the target of the watcher) and 2; 0
\* stands for a field the event does not carry. A status text is its words
\* and the seconds it names (-1: none).
StatusOf(text) == [text |-> text, seconds |-> -1]

NullStatus == StatusOf("null")

NoPart == [present |-> FALSE, sessionID |-> 0, type |-> "none"]

NoStatus == [type |-> "none", message |-> FALSE, next |-> 0]

Event(type, sessionID, sessionId, part, status) ==
  [type |-> type, sessionID |-> sessionID, sessionId |-> sessionId, part |-> part,
   status |-> status]

SessionStatuses ==
  {NoStatus} \cup
  {[type |-> t, message |-> FALSE, next |-> 0] : t \in {"busy", "idle", "other"}} \cup
  {[type |-> "retry", message |-> m, next |-> n] :
     m \in BOOLEAN, n \in {0, StartTime + 1500}}

Parts ==
  {NoPart} \cup
  {[present |-> TRUE, sessionID |-> s, type |-> t] :
     s \in 0..2, t \in {"reasoning", "text", "other"}}

Events ==
  {Event("session.status", s, 0, NoPart, st) : s \in 0..2, st \in SessionStatuses} \cup
  {Event("session.error", s, d, NoPart, NoStatus) : s \in 0..2, d \in 0..2} \cup
  {Event("message.part.updated", s, 0, p, NoStatus) : s \in 0..2, p \in Parts} \cup
  {Event(t, s, d, p, NoStatus) :
     t \in {"none", "command.executed", "session.updated", "server.connected"},
     s \in 0..2, d \in 0..2, p \in {NoPart, [present |-> TRUE, sessionID |-> 2, type |-> "text"]}}

\* Math.max(0, Math.ceil((next - now) / 1000))
SecondsUntil(next, at) == IF next <= at THEN 0 ELSE (next - at + 999) \div 1000

\* statusFromSessionStatus
StatusFromSessionStatus(status, at) ==
  IF status.type = "none" THEN StatusOf("Working")
  ELSE IF status.type = "busy" THEN StatusOf("Working")
  ELSE IF status.type = "retry"
    THEN LET base == IF status.message THEN "Retrying: message" ELSE "Retrying"
         IN IF status.next # 0
              THEN [text |-> base, seconds |-> SecondsUntil(status.next, at)]
              ELSE StatusOf(base)
  ELSE IF status.type = "idle" THEN StatusOf("Waiting")
  ELSE StatusOf("Working")

\* statusFromPart
StatusFromPart(part) ==
  IF part.type = "reasoning" THEN StatusOf("Thinking")
  ELSE IF part.type = "text" THEN StatusOf("Drafting response")
  ELSE NullStatus

\* statusFromEvent
StatusFromEvent(event, sessionId, at) ==
  LET eventSessionId == IF event.sessionID # 0 THEN event.sessionID ELSE event.sessionId
  IN IF event.type = "none" THEN NullStatus
     ELSE IF event.type = "session.status"
       THEN IF event.sessionID = sessionId
              THEN StatusFromSessionStatus(event.status, at) ELSE NullStatus
     ELSE IF event.type = "session.error"
       THEN IF event.sessionID = 0 \/ event.sessionID = sessionId
              THEN StatusOf("Error") ELSE NullStatus
     ELSE IF event.type = "message.part.updated"
       THEN IF ~event.part.present \/ event.part.sessionID # sessionId
              THEN NullStatus ELSE StatusFromPart(event.part)
     ELSE IF eventSessionId # 0 /\ eventSessionId # sessionId THEN NullStatus
     ELSE IF event.type = "command.executed" THEN StatusOf("Command executed")
     ELSE IF event.type = "session.updated" THEN StatusOf("Updating session")
     ELSE NullStatus

IdleTranslator == [pc |-> "idle", event |-> Event("none", 0, 0, NoPart, NoStatus),
                   now |-> StartTime, ticks |-> 0, results |-> <<>>]

\* an event is at hand for the watcher of session 1
EventAtHand(event) ==
  /\ translator.pc = "idle"
  /\ translator' = [translator EXCEPT !.pc = "event", !.event = event]
  /\ UNCHANGED <<gate, swallowed, ticking, environ, chunker, store, upserts, orchVars, throttleVars, recoveryVars, auxVars>>

\* statusFromEvent(event, 1) is called
Translate ==
  /\ translator.pc = "event"
  /\ Len(translator.results) < MaxTranslations
  /\ translator' = [translator EXCEPT !.results =
                      Append(@, StatusFromEvent(translator.event, 1, translator.now))]
  /\ UNCHANGED <<gate, swallowed, ticking, environ, chunker, store, upserts, orchVars, throttleVars, recoveryVars, auxVars>>

\* a second passes
TranslatorTick ==
  /\ translator.ticks < MaxTranslatorTicks
  /\ translator' = [translator EXCEPT !.now = @ + 1000, !.ticks = @ + 1]
  /\ UNCHANGED <<gate, swallowed, ticking, environ, chunker, store, upserts, orchVars, throttleVars, recoveryVars, auxVars>>

\* ------------------------------------------------------------------ /ode stop
\* slack/commands.ts, case "stop", with getOpenCodeSession and
\* cancelActiveRequest. The map threadSessions is keyed by thread id; the
\* channel's working directory is a path, so it is no key of the map.
ChannelCwd == "/work"

\* getOpenCodeSession(channelId, key)
GetOpenCodeSession(b, key) ==
  IF key \in DOMAIN b.threadSessions THEN b.threadSessions[key] ELSE 0

\* the callers of sendMessage whose AbortController the Map activeRequests
\* holds under the key of session s: those between ensureValidSession and the
\* finally of their prompt
ControllersOf(b, s) ==
  {c \in SendCallers : b.sends[c].pc = "prompt" /\ b.sends[c].validSessionId = s}

\* /ode stop is issued in the channel
SlashStop ==
  LET sessionId == GetOpenCodeSession(backend, ChannelCwd)
      cancelled == sessionId # 0 /\ ControllersOf(backend, sessionId) # {}
      answer == IF sessionId = 0 THEN "No active session."
                ELSE IF cancelled THEN "Operation cancelled."
                ELSE "No active operation to cancel."
  IN /\ Len(backend.slash) < MaxSlashStops
     /\ backend' = [backend EXCEPT !.slash = Append(@,
          [answer |-> answer,
           cancelled |-> cancelled,
           stored |-> backend.threadSessions["t1"],
           inFlight |-> \E c \in SendCallers : backend.sends[c].pc = "prompt"])]
     /\ UNCHANGED <<gate, pureVars, orchVars, throttleVars, recoveryVars, life, lockVars>>

\* ------------------------------------------------------------------ start
\* the throttling state of a process that has just started
InitThrottle ==
  /\ now = StartTime
  /\ lastUpdateTime = [m \in Msgs |-> 0]
  /\ pendingUpdates = {}
  /\ globalUpdateQueue = <<>>
  /\ globalQueueProcessing = FALSE
  /\ globalLastUpdate = 0
  /\ drain = Idle
  /\ edits = [m \in Msgs |-> <<>>]
  /\ settled = {}
  /\ meter = [m \in Msgs |-> [calls |-> 0, flushes |-> 0, first |-> 0, last |-> 0]]

\* recoverPendingRequests not called yet
Booting ==
  [pc |-> "boot", list |-> <<>>, i |-> 0, decided |-> [s \in Keys |-> Undecided],
   initial |-> [s \in Keys |-> NoRequest],
   live |-> {},        \* the sessions whose ActiveRequest this process created
   reloaded |-> {}]    \* those of them whose cached object loadAllSessions replaced

\* no message has arrived yet
InitOrch ==
  /\ processedMessages = <<>>
  /\ sent = [t \in Threads |-> 0]
  /\ threadQueues = [t \in Threads |-> NoQueue]
  /\ calls = [t \in Threads |-> <<>>]
  /\ turns = [t \in Threads |-> <<>>]
  /\ runs = [t \in Threads |-> <<>>]
  /\ sessions = [t \in Threads |-> NoSession]
  /\ threadSessions = [t \in Threads |-> FALSE]
  /\ stops = <<>>
  /\ stopsSeen = 0
  /\ buttonsSeen = 0
  /\ todoEvents = 0
  /\ redelivered = 0
  /\ backlog = 0

\* no request is followed and no prompt has been sent
InitAux ==
  /\ life = NoLife
  /\ senders = [c \in Callers |-> IdleSender]
  /\ sessionLocks = 0
  /\ activeRequests = 0
  /\ abortedControllers = {}
  /\ arrivals = 0
  /\ backend = InitBackend
  /\ gate = InitGate
  /\ chunker = IdleChunker
  /\ store = InitStore
  /\ upserts = InitUpserts
  /\ environ = InitEnviron
  /\ ticking = InitTicking
  /\ translator = IdleTranslator

\* The process has started and recovery has found nothing to do.
Init ==
  /\ InitOrch
  /\ InitThrottle
  /\ InitAux
  /\ persisted = [s \in Keys |-> NoRequest]
  /\ pendingRestart = FALSE
  /\ recovery = [Booting EXCEPT !.pc = "done"]
  /\ swallowed = NoFailure

\* The process has started over the session files of its previous run.
InitRecovery ==
  /\ InitOrch
  /\ InitThrottle
  /\ InitAux
  /\ persisted \in [Keys -> SessionFiles]
  /\ pendingRestart \in BOOLEAN
  /\ recovery = [Booting EXCEPT !.initial = persisted]
  /\ swallowed = NoFailure

\* ------------------------------------------------------------------ next-state relations
\* One step of the turn or of the request running on thread t; the backend
\* answers with one of resps.
Progress(t, resps) ==
  \/ \E k \in 1..Len(turns[t]) :
       \/ TurnSession(t, k)
       \/ TurnSessionFail(t, k)
       \/ TurnPosted(t, k)
       \/ TurnPostFail(t, k)
       \/ LoopResume(t, k)
  \/ \E r \in 1..Len(runs[t]) :
       \/ RunPostStatusOk(t, r)
       \/ \E how \in {"returned", "thrown"} : RunPostStatusFail(t, r, how)
       \/ RunWatcherOk(t, r)
       \/ RunWatcherFail(t, r)
       \/ RunSendPrompt(t, r)
       \/ \E resp \in resps : RunPromptReturn(t, r, resp)
       \/ RunPromptFail(t, r)
       \/ RunFailed(t, r)
       \/ RunDeleted(t, r)

\* Messages arrive on both threads while turns run; no stop, no button.
NextQueue ==
  \/ \E t \in Threads : DeliverNew(t, FALSE, Limit(t))
  \/ \E t \in Threads : Progress(t, {"text"})

SpecQueue == Init /\ [][NextQueue]_vars

\* One thread and its drain loop
NextDrain ==
  \/ DeliverNew("t1", FALSE, MaxMsgs)
  \/ Progress("t1", {"text"})

SpecDrain == Init /\ [][NextDrain]_vars

\* Its fair variant: an awaited promise that can settle does settle, so the
\* turn and the drain loop keep moving.
FairSpecDrain == SpecDrain /\ WF_vars(Progress("t1", {"text"}))

\* One thread, planning: messages with and without the word "plan", todo
\* events while a prompt runs, every kind of answer.
NextPlan ==
  \/ \E p \in BOOLEAN : DeliverNew("t1", p, MaxTurnMsgs)
  \/ Progress("t1", Responses)
  \/ \E todos \in TodoLists : TodoEvent("t1", todos)

SpecPlan == Init /\ [][NextPlan]_vars

\* One thread, its phases: messages with and without the word "plan", answers
\* with and without a question, while the channel's agent override is set and
\* removed.
NextPhase ==
  \/ \E p \in BOOLEAN : DeliverNew("t1", p, MaxTurnMsgs)
  \/ Progress("t1", {"text", "question"})
  \/ \E a \in AgentOverrides : SetAgentOverride(a)

SpecPhase == Init /\ [][NextPhase]_vars

\* One thread with stop messages arriving while its requests run.
NextStop ==
  \/ DeliverNew("t1", FALSE, MaxTurnMsgs)
  \/ Progress("t1", {"text"})
  \/ StopStart("t1")
  \/ \E i \in 1..Len(stops) : StopAborted(i) \/ StopFinish(i)

SpecStop == Init /\ [][NextStop]_vars

\* One thread with stop messages while its requests run, and awaited status
\* edits of two messages; deleting, aborting and editing may fail.
NextBestEffort ==
  \/ /\ swallowed.scene = "commands"
     /\ \/ DeliverNew("t1", FALSE, MaxStopMsgs)
        \/ Progress("t1", {"text"})
        \/ stopsSeen < MaxFailedStops /\ StopStart("t1")
        \/ \E i \in 1..Len(stops) :
             StopAborted(i) \/ StopFinish(i) \/ StopAbortFailed(i) \/ StopDeleteFailed(i)
        \/ \E r \in 1..Len(runs["t1"]) : RunDeleteFailed("t1", r)
  \/ /\ swallowed.scene = "queue"
     /\ \/ \E m \in {"m1", "m2"} : TotalCalls < MaxEdits /\ UpdateAwaited(m)
        \/ DrainWake
        \/ DrainUpdated
        \/ DrainUpdateFailed
        \/ SleepElapses

\* what is followed is chosen at the start: the commands of a thread, or the
\* global update queue
InitBestEffort ==
  /\ InitOrch
  /\ InitThrottle
  /\ InitAux
  /\ persisted = [s \in Keys |-> NoRequest]
  /\ pendingRestart = FALSE
  /\ recovery = [Booting EXCEPT !.pc = "done"]
  /\ swallowed \in {[NoFailure EXCEPT !.scene = sc] : sc \in {"commands", "queue"}}

SpecBestEffort == InitBestEffort /\ [][NextBestEffort]_vars

\* Its fair variant: every await settles and the sleep of the drain loop ends.
FairSpecBestEffort ==
  /\ SpecBestEffort
  /\ WF_vars(Progress("t1", {"text"}))
  /\ WF_vars(\E i \in 1..Len(stops) : StopAborted(i) \/ StopFinish(i))
  /\ WF_vars(DrainWake) /\ WF_vars(DrainUpdated) /\ WF_vars(SleepElapses)

\* The requests of one thread with their progress timers and the drain loop.
NextTicking ==
  \/ \E r \in TickRequests :
       \/ TickRequestStarts(r)
       \/ TickFires(r)
       \/ \E final \in {"completed", "failed"} : TickRequestEnds(r, final)
  \/ \E id \in ticking.waiting : TickResumes(id)
  \/ DrainWake
  \/ DrainUpdated
  \/ SleepElapses
  \/ TickClock

SpecTicking == Init /\ [][NextTicking]_vars

\* Backend instances are created with and without overrides.
NextEnviron ==
  \/ \E c \in Creations, ov \in Overrides : CreateCall(c, ov)
  \/ RunStarts
  \/ \E c \in Creations : CreateSettles(c)

SpecEnviron == Init /\ [][NextEnviron]_vars

\* One thread, opened by one user message, with button selections.
NextButton ==
  \/ DeliverNew("t1", FALSE, 1)
  \/ Progress("t1", {"text"})
  \/ ButtonStart("t1")
  \/ \E r \in 1..Len(runs["t1"]) :
       \/ ButtonDeleted("t1", r)
       \/ ButtonPosted("t1", r)
       \/ ButtonPostFail("t1", r)

SpecButton == Init /\ [][NextButton]_vars

\* Messages are delivered and delivered again, around a burst of messages of
\* other conversations, faster than the first turn of a thread gets past its
\* first await.
NextDedup ==
  \/ \E t \in Threads : DeliverNew(t, FALSE, MaxDedupMsgs)
  \/ \E t \in Threads : \E n \in 1..sent[t] : Redeliver(t, n, FALSE)
  \/ DeliverOthers

SpecDedup == Init /\ [][NextDedup]_vars

\* Status updates of two messages, flushes, the drain loop and the clock.
NextThrottle ==
  \/ \E key \in {"m1", "m2"} : Update(key)
  \/ \E key \in {"m1", "m2"} : Flush(key)
  \/ DrainWake
  \/ DrainUpdated
  \/ \E dt \in {250, 500} : Tick(dt)

SpecThrottle == Init /\ [][NextThrottle]_vars

\* Awaited updates of two status messages, the drain loop and the clock.
NextWaiters ==
  \/ \E key \in {"m1", "m2"} : UpdateAwaited(key)
  \/ DrainWake
  \/ DrainUpdated
  \/ Tick(500)
  \/ SleepElapses

SpecWaiters == Init /\ [][NextWaiters]_vars

\* Its fair variant: the timer of the drain loop fires and chat.update settles.
FairSpecWaiters ==
  SpecWaiters /\ WF_vars(DrainWake) /\ WF_vars(DrainUpdated) /\ WF_vars(SleepElapses)

\* Updates of three status messages, the drain loop and the clock.
NextCollapse ==
  \/ \E key \in Msgs : UpdateUpTo(key, MaxQueuedCalls)
  \/ DrainWake
  \/ DrainUpdated
  \/ Tick(500)

SpecCollapse == Init /\ [][NextCollapse]_vars

\* One request with its status message: the progress timer, the drain loop
\* and the clock, and a backend prompt that returns or throws.
NextLife ==
  \/ \E kind \in {"turn", "button"} : LifeStart(kind)
  \/ LifeWatcher
  \/ LifeConnected
  \/ LifeLabelled
  \/ LifeTimer
  \/ \E err \in Errors : LifePromptFail(err)
  \/ LifeFlushed
  \/ LifeErrored
  \/ LifePromptReturn
  \/ LifeDeleted
  \/ DrainWake
  \/ DrainUpdated
  \/ \E dt \in {250, 500} : Tick(dt)

SpecLife == Init /\ [][NextLife]_vars

\* Overlapping sendMessage calls on one session key.
NextLock ==
  \/ \E c \in Callers : SendEnter(c)
  \/ \E c \in Callers : SendPrompt(c)
  \/ \E c \in Callers : \E result \in {"ok", "error"} : SendSettles(c, result)

SpecLock == Init /\ [][NextLock]_vars

\* getOrCreateSession calls of both threads with every environment, around
\* a restart of the process.
NextSession ==
  \/ \E t \in Threads : \E env \in Envs : SessionCall(t, env)
  \/ \E t \in Threads : SessionCreated(t)
  \/ \E t \in Threads : SessionCreateFail(t)
  \/ Restart

SpecSession == Init /\ [][NextSession]_vars

\* Thread t1 gets its session, the process may restart, and a turn and a
\* button selection send prompts on the stored session id.
NextValid ==
  \/ SessionCall("t1", EnvEmpty)
  \/ SessionCreated("t1")
  \/ Restart
  \/ \E c \in SendCallers : SendStart(c) \/ SendAgain(c)
  \/ \E s \in SessionIds : InstanceReady(s)
  \/ \E c \in SendCallers : ValidCreated(c) \/ ValidCreateFail(c) \/ SendDone(c)

SpecValid == Init /\ [][NextValid]_vars

\* Watchers of thread t1 subscribe and unsubscribe while the thread gets its
\* session, the process may restart, a turn sends its prompt and the event
\* loops receive events.
NextSub ==
  \/ SessionCall("t1", EnvEmpty)
  \/ SessionCreated("t1")
  \/ Restart
  \/ \E s \in SessionIds : EnsureSession(s) \/ InstanceReady(s)
  \/ \E h \in Handlers : SubscribeToSession(h) \/ Unsubscribe(h)
  \/ \E i \in 1..MaxInstances : EventReceived(i)
  \/ SendStart("turn")
  \/ ValidCreated("turn")
  \/ SendDone("turn")

SpecSub == Init /\ [][NextSub]_vars

\* Messages of every kind are posted in thread t1 over two days; their events
\* reach the handlers in any order. No turn gets past its first await.
NextGate ==
  \/ \E text \in Texts : UserPosts(text)
  \/ \E n \in 1..MaxGateMsgs : MessageEvent(n) \/ MentionEvent(n)
  \/ GateTick

SpecGate == Init /\ [][NextGate]_vars

\* Prompts and stop messages are posted in thread t1 while its turns run.
NextGateStop ==
  \/ \E text \in StopTexts : UserPosts(text)
  \/ \E n \in 1..MaxGateMsgs : MessageEvent(n) \/ MentionEvent(n)
  \/ Progress("t1", {"text"})
  \/ \E i \in 1..Len(stops) : StopAborted(i) \/ StopFinish(i)

SpecGateStop == Init /\ [][NextGateStop]_vars

\* A text is split and its chunks are posted.
NextSplit ==
  \/ \E n \in 0..MaxTextLen : \E text \in TextsOfLen(n) :
       \E maxLength \in 0..MaxChunkLen : SplitForSlack(text, maxLength)
  \/ SplitLoop
  \/ PostChunk

SpecSplit == Init /\ [][NextSplit]_vars

\* One event is translated several times while time passes.
NextTranslate ==
  \/ \E event \in Events : EventAtHand(event)
  \/ Translate
  \/ TranslatorTick

SpecTranslate == Init /\ [][NextTranslate]_vars

\* Thread t1 gets its session and sends prompts; /ode stop is issued in its
\* channel at any moment.
NextSlash ==
  \/ SessionCall("t1", EnvEmpty)
  \/ SessionCreated("t1")
  \/ Restart
  \/ \E c \in SendCallers : SendStart(c) \/ SendDone(c) \/ ValidCreated(c)
  \/ \E s \in SessionIds : InstanceReady(s)
  \/ SlashStop

SpecSlash == Init /\ [][NextSlash]_vars

\* Both threads get their sessions; watchers of thread t1 subscribe, events
\* arrive, time passes and the cleanup interval fires.
NextSweep ==
  \/ \E t \in Threads : SessionCall(t, EnvEmpty) \/ SessionCreated(t)
  \/ \E s \in SessionIds : EnsureSession(s) \/ InstanceReady(s)
  \/ SubscribeToSession("h1")
  \/ Unsubscribe("h1")
  \/ \E i \in 1..MaxInstances : EventReceived(i) \/ PermissionAsked(i) \/ PermissionReplied(i)
  \/ BackendTick
  \/ Sweep

SpecSweep == Init /\ [][NextSweep]_vars

\* The session store alone: requests are stored and ended, read, and the
\* session files are loaded (startup recovery, /ode restart).
NextStore ==
  \/ \E conv \in Conversations, ok \in BOOLEAN :
       \/ StoreActiveRequest(conv, ok)
       \/ EndActiveRequest(conv, "completed", ok)
       \/ EndActiveRequest(conv, "failed", ok)
       \/ UpdateActiveRequest(conv, ok)
       \/ ClearActiveRequest(conv, ok)
  \/ \E conv \in Conversations : GetActiveRequest(conv)
  \/ LoadAllSessions

SpecStore == Init /\ [][NextStore]_vars

\* The todo.updated events of one plan and the chat calls they lead to.
NextUpsert ==
  \/ \E todos \in TodoLists : UpsertPlanMessage(todos)
  \/ \E k \in 1..MaxUpserts, ok \in BOOLEAN : PlanPostSettled(k, ok)
  \/ \E k \in 1..MaxUpserts : PlanUpdateSettled(k)

SpecUpsert == Init /\ [][NextUpsert]_vars

\* Startup recovery alone: no message arrives while it runs.
NextRecovery ==
  \/ RecoverStart
  \/ RecoverEdited
  \/ RecoverRestarted
  \/ DrainWake
  \/ DrainUpdated
  \/ \E dt \in {250, 500} : Tick(dt)

SpecRecovery == InitRecovery /\ [][NextRecovery]_vars

\* The same, with the messages that arrive before the recovery is called.
NextLiveRecovery ==
  \/ RecoverStart
  \/ RecoverEdited
  \/ RecoverRestarted
  \/ DrainWake
  \/ DrainUpdated
  \/ Tick(500)
  \/ \E s \in Keys : LiveTurnStarts(s)

SpecLiveRecovery == InitRecovery /\ [][NextLiveRecovery]_vars

\* ------------------------------------------------------------------ properties
Executing(t) == {k \in 1..Len(turns[t]) : turns[t][k].pc \in {"session", "run", "posting"}}

Occurrences(text, id) == Cardinality({i \in 1..Len(text) : text[i] = id})

\* How many times the message id occurs in the texts of seq (the items of a
\* queue, or the calls made for a thread).
RECURSIVE Count(_, _)
Count(seq, id) ==
  IF Len(seq) = 0 THEN 0
  ELSE Occurrences(seq[1].text, id) + Count(Tail(seq), id)

Queued(t, id) == threadQueues[t].exists /\ Count(threadQueues[t].items, id) > 0
Called(t, id) == Count(calls[t], id) > 0

\* C1: when N >= 1 messages wait in a thread's queue and the drain loop makes
\* its next call, that step makes exactly one call, the queue is left empty,
\* the call carries the context of the first waiting message and its text is
\* the N texts in arrival order with one newline between neighbours, and none
\* of the N messages was in an earlier call.
C1_Coalescing ==
  [][\A t \in Threads :
       (threadQueues[t].exists /\ Len(threadQueues[t].items) >= 1 /\ calls'[t] # calls[t]) =>
         LET items == threadQueues[t].items
             n == Len(items)
             call == calls'[t][Len(calls'[t])]
         IN /\ Len(calls'[t]) = Len(calls[t]) + 1
            /\ SubSeq(calls'[t], 1, Len(calls[t])) = calls[t]
            /\ threadQueues'[t].exists /\ threadQueues'[t].items = <<>>
            /\ call.context = items[1].context
            /\ Len(call.text) = 2 * n - 1
            /\ \A i \in 1..n : call.text[2 * i - 1] = items[i].text[1]
            /\ \A i \in 1..(n - 1) : call.text[2 * i] = NL
            /\ \A i \in 1..n : Count(calls[t], items[i].context) = 0]_vars

\* two messages that waited during a turn are in one call
C1_Witness ==
  \E t \in Threads : \E c \in 1..Len(calls[t]) :
    /\ c > 1
    /\ calls[t][c].text = <<MsgId(t, 2, FALSE), NL, MsgId(t, 3, FALSE)>>

\* C3: on every thread at most one handleUserMessageInternal call is
\* executing, and a call is added only when none was executing.
C3_Serialized ==
  [][\A t \in Threads :
       /\ Cardinality(Executing(t)) <= 1
       /\ Cardinality(Executing(t))' <= 1
       /\ (calls'[t] # calls[t] => Executing(t) = {})]_vars

\* a message waits behind the executing turn of t1 while t2's turn executes too
C3_Witness ==
  /\ Executing("t1") # {} /\ Executing("t2") # {}
  /\ Len(threadQueues["t1"].items) > 0

\* C4: every enqueued message is at every moment either waiting in the queue
\* or in the text of exactly one call, never both and never twice, and a
\* waiting message is eventually in a call, whatever the turns before it did.
C4_NoDrop ==
  /\ [](\A n \in 1..sent["t1"] :
          Count(threadQueues["t1"].items, MsgId("t1", n, FALSE))
            + Count(calls["t1"], MsgId("t1", n, FALSE)) = 1)
  /\ \A n \in 1..MaxMsgs :
       Queued("t1", MsgId("t1", n, FALSE)) ~> Called("t1", MsgId("t1", n, FALSE))

\* the turn of a thread has thrown while a message waits in its queue
C4_Witness ==
  \E k \in 1..Len(turns["t1"]) :
    /\ turns["t1"][k].pc = "thrown"
    /\ Len(threadQueues["t1"].items) > 0

\* The step in which turn k of thread t, having planned, takes its decision:
\* its planner responses are posted (or there were none with text).
Decides(t, k) ==
  /\ turns[t][k].phase = "plan"
  /\ turns[t][k].branch = ""
  /\ turns'[t][k].branch \in {"build", "awaiting_input"}

\* The step in which the build request of turn k ends well and the turn returns.
BuildSucceeds(t, k) ==
  /\ turns[t][k].branch = "build"
  /\ turns'[t][k].pc = "returned"
  /\ \/ turns[t][k].pc = "posting"
     \/ turns[t][k].pc = "run" /\ runs[t][turns[t][k].run].pc = "deleting"

C7_AwaitingInput ==
  [][\A k \in 1..Len(turns["t1"]) :
       (/\ Decides("t1", k)
        /\ \/ ~turns'["t1"][k].sawTodos
           \/ turns'["t1"][k].responses = "question")
       => /\ turns'["t1"][k].branch = "awaiting_input"
          /\ sessions'["t1"].plan.status = "awaiting_input"
          /\ Len(runs'["t1"]) = Len(runs["t1"])]_vars

\* a re-entered planning turn whose planning request produced no todos is building
C7_Witness ==
  \E k \in 1..Len(turns["t1"]) :
    /\ k > 1
    /\ turns["t1"][k].branch = "build"
    /\ ~turns["t1"][k].sawTodos

\* C8: the backend abort is called at most once for a request.
C8_AbortOnce ==
  \A r \in 1..Len(runs["t1"]) : runs["t1"][r].aborts <= 1

\* two stop commands are awaiting the abort of the same request
C8_Witness ==
  \E i, j \in 1..Len(stops) :
    /\ i # j
    /\ stops[i].request = stops[j].request
    /\ stops[i].pc = "aborting" /\ stops[j].pc = "aborting"

\* C2: on a thread at most one backend prompt is in flight.
C2_OnePrompt ==
  \A t \in Threads : Cardinality({r \in 1..Len(runs[t]) : runs[t][r].pc = "prompt"}) <= 1

\* a button selection's prompt and a queued turn's prompt are both in flight
C2_Witness ==
  \E r, q \in 1..Len(runs["t1"]) :
    /\ runs["t1"][r].kind = "button" /\ runs["t1"][r].pc = "prompt"
    /\ runs["t1"][q].kind = "turn" /\ runs["t1"][q].pc = "prompt"

Total(t, id) == Count(threadQueues[t].items, id) + Count(calls[t], id)

\* C5 as stated: every delivered id is enqueued exactly once.
C5_Once ==
  \A t \in Threads : \A n \in 1..sent[t] : Total(t, MsgId(t, n, FALSE)) = 1

\* C5: a step enqueues an id at most once; it enqueues nothing for an id that
\* is in the processed set; and an id it enqueues was not in the set and is in
\* it afterwards.
C5_OncePerMark ==
  [][\A t \in Threads : \A n \in 1..sent'[t] :
       LET id == MsgId(t, n, FALSE)
           before == Total(t, id)
           after == Total(t, id)'
           marked == IsMessageProcessed(processedMessages, id)
           markedAfter == IsMessageProcessed(processedMessages', id)
       IN /\ after \in {before, before + 1}
          /\ marked => after = before
          /\ after = before + 1 => ~marked /\ markedAfter
          /\ markedAfter => after >= 1]_vars

\* the first id of t1, delivered again while in the set, is enqueued once
C5_Witness ==
  /\ sent["t1"] = 1
  /\ redelivered = 1
  /\ IsMessageProcessed(processedMessages, MsgId("t1", 1, FALSE))
  /\ Total("t1", MsgId("t1", 1, FALSE)) = 1

\* the recovery has finished
Recovered == recovery.pc = "done"

CeilWindow(m) ==
  (meter[m].last - meter[m].first + UPDATE_THROTTLE_MS - 1) \div UPDATE_THROTTLE_MS

\* C10 as stated: the chat.update calls made for a message are at most
\* ceil(W / 500) + 1, W the time from the first to the last call for it.
C10_Bound ==
  \A m \in Msgs : Len(edits[m]) <= CeilWindow(m) + 1

\* C10: the chat.update calls made for a message are at most ceil(W / 500) + 1
\* plus the number of flushes that found an update pending; and a direct call
\* less than 500 ms after the last accepted call for the message enqueues
\* nothing, makes no edit and sets the pending flag.
C10_BoundWithFlushes ==
  [][\A m \in Msgs :
       /\ Len(edits'[m]) <= CeilWindow(m)' + 1 + meter'[m].flushes
       /\ (/\ meter'[m].calls = meter[m].calls + 1
           /\ meter'[m].flushes = meter[m].flushes
           /\ now - lastUpdateTime[m] < UPDATE_THROTTLE_MS)
          => /\ globalUpdateQueue' = globalUpdateQueue
             /\ edits' = edits
             /\ lastUpdateTime' = lastUpdateTime
             /\ m \in pendingUpdates']_vars

\* a flush was accepted right after an accepted call, both were edited, and a
\* later call was dropped
C10_Witness ==
  /\ meter["m1"].flushes >= 1
  /\ Len(edits["m1"]) > CeilWindow("m1") + 1
  /\ "m1" \in pendingUpdates

\* ------------------------------------------------------------------ C11
\* every queued update has been written and the drain loop has ended
Drained == Len(globalUpdateQueue) = 0 /\ drain.pc = "idle"

\* C11 as stated: whenever the calls made so far for a message have all been
\* handled and the global queue has drained, the content last written to the
\* message is the content of the most recent call for it.
C11_LastContent ==
  \A m \in Msgs :
    (Drained /\ meter[m].calls > 0)
      => /\ Len(edits[m]) > 0
         /\ edits[m][Len(edits[m])] = StatusText(meter[m].calls)

\* the queue has drained, the second call for m1 was dropped by the 500 ms
\* test, and the message still shows the content of the first call
C11_Witness ==
  /\ Drained
  /\ meter["m1"].calls = 2
  /\ meter["m1"].flushes = 0
  /\ "m1" \in pendingUpdates
  /\ edits["m1"] = <<StatusText(1)>>

\* ------------------------------------------------------------------ C12
\* the step in which runOpenCodeRequest, its status message deleted, persists
\* the completion and returns the responses of run r to the turn
ReturnsResponses(t, r) ==
  /\ r <= Len(runs[t])
  /\ runs[t][r].kind = "turn"
  /\ runs[t][r].pc = "deleting"
  /\ runs'[t][r].pc # "deleting"

\* C12: when the backend prompt of a turn has returned without error, the
\* request's progress timer and event watcher are stopped, and when
\* runOpenCodeRequest returns, the status message is deleted, the
\* ActiveRequest the session persists is this request with state completed,
\* and the turn holds the responses, which it posts as messages of their own
\* when they carry text.
C12_SuccessLifecycle ==
  [][\A r \in 1..Len(runs["t1"]) :
       ReturnsResponses("t1", r) =>
         LET k == runs["t1"][r].owner
         IN /\ ~runs["t1"][r].timer /\ ~runs["t1"][r].watching
            /\ sessions'["t1"].activeRequest = r
            /\ runs'["t1"][r].state = "completed"
            /\ runs'["t1"][r].statusMsg = "deleted"
            /\ (runs["t1"][r].responses # "none") => turns'["t1"][k].pc = "posting"]_vars

\* a turn's request has returned its responses while the session's
\* ActiveRequest was the request of a button selection: that request is
\* marked completed while its own prompt is still running
C12_Witness ==
  \E b \in 1..Len(runs["t1"]) :
    /\ turns["t1"][1].pc = "posting"
    /\ runs["t1"][b].kind = "button"
    /\ runs["t1"][b].pc = "prompt"
    /\ runs["t1"][b].state = "completed"
    /\ sessions["t1"].activeRequest = b

\* ------------------------------------------------------------------ C13
\* C13: when the backend prompt of a request has failed and the request has
\* ended, its status message is not deleted, the last text written to it is
\* the error status of the classified error, and the ActiveRequest is saved
\* as failed with the error label.
C13_ErrorRecord ==
  (life.pc = "done" /\ life.state = "failed")
    => /\ ~life.deleted
       /\ Len(edits["m1"]) > 0
       /\ edits["m1"][Len(edits["m1"])] = ErrorStatus(life.cause)
       /\ life.saved = [state |-> "failed", error |-> CategorizeError(life.cause).message]

\* a request has failed less than 500 ms after a progress update was
\* accepted, and has ended with the progress text as the message's content
C13_Witness ==
  /\ life.pc = "done"
  /\ life.state = "failed"
  /\ life.saved.state = "failed"
  /\ life.ticks >= 1
  /\ Drained
  /\ edits["m1"][Len(edits["m1"])] = StatusText(life.ticks)

\* ------------------------------------------------------------------ C14
\* the turn that owns run r of thread t has ended
TurnEnded(t, r) == turns[t][runs[t][r].owner].pc \in {"returned", "thrown", "done"}

\* C14: once a turn has ended, the ActiveRequest it created and saved in the
\* session is completed or failed, never processing.
C14_Terminal ==
  \A t \in Threads : \A r \in 1..Len(runs[t]) :
    (/\ runs[t][r].kind = "turn"
     /\ sessions[t].activeRequest = r
     /\ TurnEnded(t, r))
      => runs[t][r].state \in {"completed", "failed"}

\* the watcher of the first request of t1 failed to start, the turn threw and
\* the drain loop went on, and the session still holds the request as
\* processing with its progress timer running
C14_Witness ==
  /\ Len(runs["t1"]) >= 1
  /\ runs["t1"][1].pc = "thrown"
  /\ runs["t1"][1].state = "processing"
  /\ runs["t1"][1].timer
  /\ sessions["t1"].activeRequest = 1
  /\ turns["t1"][1].pc = "done"

\* ------------------------------------------------------------------ C15
\* the callers whose client.session.prompt call is outstanding
Outstanding == {c \in Callers : senders[c].pc = "prompt"}

\* C15: at most one client.session.prompt call is outstanding for the session
\* key at any time.
C15_OnePrompt == Cardinality(Outstanding) <= 1

\* two callers that waited for the same earlier prompt have both their
\* prompts outstanding, each with its controller's abort state as sendMessage
\* left it
C15_Witness ==
  \E b, c \in Callers :
    /\ b # c
    /\ {b, c} \subseteq Outstanding
    /\ b \in abortedControllers
    /\ sessionLocks = c

\* ------------------------------------------------------------------ C16
\* the key names in sorted order
KeyNames == <<"A", "B">>

\* the fingerprint of an environment, from the set of its entries: the
\* key=value pairs of the keys it binds, in sorted key order, joined by line
\* breaks; "" for no environment
Fingerprint(env) ==
  LET bs == IF env = Null THEN {} ELSE {env[i] : i \in 1..Len(env)}
      present == SelectSeq(KeyNames, LAMBDA k : \E e \in bs : e.key = k)
      entry(k) == CHOOSE e \in bs : e.key = k
  IN Join([i \in 1..Len(present) |->
             <<present[i], "=">> \o entry(present[i]).value], <<"\n">>)

\* C16: a getOrCreateSession call returns the stored id with created = FALSE,
\* creating nothing, exactly when the thread has a mapping and the
\* fingerprint of the environment recorded for that session equals the
\* fingerprint of the requested one; otherwise it goes on to create a backend
\* session, and when that has been created, exactly one session is new, the
\* thread's mapping is the new id and the call returns it with created = TRUE.
C16_ReuseRule ==
  [][\A t \in Threads :
       LET before == backend.calls[t]
           after == backend'.calls[t]
           stored == backend.threadSessions[t]
           same == /\ stored # 0
                   /\ Fingerprint(backend.sessionEnvironments[stored]) = Fingerprint(after.env)
       IN /\ (before.pc # "creating" /\ after # before) =>
               /\ backend'.created = backend.created
               /\ backend'.threadSessions = backend.threadSessions
               /\ IF same
                    THEN /\ after.pc = "returned"
                         /\ after.result = [sessionId |-> stored, created |-> FALSE]
                    ELSE after.pc = "creating"
          /\ (before.pc = "creating" /\ after.pc = "returned") =>
               /\ backend'.created = backend.created + 1
               /\ after.result = [sessionId |-> backend'.created, created |-> TRUE]
               /\ backend'.threadSessions =
                    [backend.threadSessions EXCEPT ![t] = backend'.created]
               /\ backend'.sessionEnvironments[backend'.created] = before.env]_vars

\* a call has reused a session whose environment was recorded with its keys
\* in the other insertion order, and a call of the other thread has created one
C16_Witness ==
  /\ backend.calls["t1"].pc = "returned"
  /\ backend.calls["t1"].env = EnvAB
  /\ backend.calls["t1"].result.created = FALSE
  /\ backend.calls["t1"].result.sessionId # 0
  /\ backend.sessionEnvironments[backend.threadSessions["t1"]] = EnvBA
  /\ backend.calls["t2"].result.created

\* ------------------------------------------------------------------ C17
\* ensureValidSession, call by call: it returns the given id, creating
\* nothing, exactly when the id is valid in the instance registered under it;
\* otherwise, when its session.create has resolved, exactly one session is
\* new, the new id is valid in the caller's instance, the instance is
\* registered under the new id and no longer under the old one, the new id is
\* returned and sendMessage has stored it for the thread.
EnsureValidPerCall ==
  [][\A c \in SendCallers :
       LET before == backend.sends[c]
           after == backend'.sends[c]
       IN /\ (before.pc \in {"idle", "done"} /\ after.pc \in {"prompt", "creating", "instance"}) =>
               /\ backend'.created = backend.created
               /\ backend'.threadSessions = backend.threadSessions
               /\ (after.pc = "prompt") <=>
                    /\ backend.sessionInstances[after.sessionId] # 0
                    /\ after.sessionId \in
                         backend.instances[backend.sessionInstances[after.sessionId]].validSessionIds
               /\ (after.pc = "prompt") => after.validSessionId = after.sessionId
          /\ (before.pc = "creating" /\ after.pc = "prompt") =>
               /\ backend'.created = backend.created + 1
               /\ after.validSessionId = backend'.created
               /\ after.validSessionId \in backend'.instances[before.instance].validSessionIds
               /\ backend'.sessionInstances[after.validSessionId] = before.instance
               /\ backend'.sessionInstances[before.sessionId] = 0
               /\ backend'.threadSessions["t1"] = after.validSessionId]_vars

\* C17: while a sendMessage call that was given a changed id uses it for its
\* prompt, the session id stored for the calling thread is that id.
C17_StoredMapping ==
  \A c \in SendCallers :
    (backend.sends[c].pc = "prompt"
     /\ backend.sends[c].validSessionId # backend.sends[c].sessionId)
      => backend.threadSessions["t1"] = backend.sends[c].validSessionId

\* after a restart the turn and the button selection were both given the
\* stale id, each got a new id of its own, and both prompts run
C17_Witness ==
  /\ backend.restarts = 1
  /\ backend.sends["turn"].pc = "prompt"
  /\ backend.sends["button"].pc = "prompt"
  /\ backend.sends["turn"].sessionId = backend.sends["button"].sessionId
  /\ backend.sends["turn"].validSessionId # backend.sends["button"].validSessionId
  /\ backend.sends["turn"].validSessionId # backend.sends["turn"].sessionId
  /\ backend.sends["button"].validSessionId # backend.sends["button"].sessionId

\* ------------------------------------------------------------------ C18
\* while a handler is attached and not unsubscribed, every event the loop of
\* its instance receives is dispatched to it
SubscribedGetsEvents == \A h \in Handlers : ~backend.subs[h].missed

\* C18: a handler is never invoked after the unsubscribe function returned
\* for it has been called, whether it was attached at subscribe time or queued
\* until the instance was established.
C18_NoCallAfterUnsubscribe == \A h \in Handlers : ~backend.subs[h].late

\* a handler attached synchronously to an existing instance, unsubscribed,
\* and invoked afterwards
C18_Witness ==
  \E h \in Handlers :
    /\ backend.subs[h].how = "sync"
    /\ backend.subs[h].unsubscribed
    /\ backend.subs[h].late

\* a handler queued on the start of its instance, unsubscribed before the
\* instance was established, and invoked afterwards
QueuedInvokedLate ==
  \E h \in Handlers :
    /\ backend.subs[h].how = "async"
    /\ backend.subs[h].unsubscribed
    /\ backend.subs[h].late
    /\ backend.sessionInstances[backend.subs[h].sessionId] = backend.subs[h].instance

\* ------------------------------------------------------------------ C19
\* the outcomes with which a handler has passed the gate
Passed == {"greeted", "enqueued", "duplicate"}

\* a message event goes on to handleUserMessage only if the text mentions the
\* bot or the thread was marked active less than 24h before
EnqueuedOnlyIfAddressed ==
  \A n \in 1..Len(gate.msgs) :
    LET m == gate.msgs[n]
    IN m.message.pc \in Passed =>
         \/ BotMention \in m.text.mentions
         \/ /\ m.message.activeBefore # 0
            /\ m.message.at - m.message.activeBefore < ACTIVE_THREAD_WINDOW_MS

\* every event that passes the gate sets the thread's timestamp to the time
\* of the event
PassingRefreshes ==
  [][\A n \in 1..Len(gate.msgs) : \A ev \in {"message", "mention"} :
       (gate.msgs[n][ev].pc = "pending" /\ gate'.msgs[n][ev].pc \in Passed)
         => gate'.activeThreads["t1"] = gate.now]_vars

\* C19: the message event of a message that mentions another user and not the
\* bot is never enqueued, whether or not the thread is active.
C19_OtherMentionIgnored ==
  \A n \in 1..Len(gate.msgs) :
    LET m == gate.msgs[n]
    IN (\E x \in m.text.mentions : x.who = "other") /\ BotMention \notin m.text.mentions
         => m.message.pc # "enqueued"

\* in an active thread, a message that mentions only another user, whose id
\* begins with W, has been enqueued
C19_Witness ==
  \E n \in 1..Len(gate.msgs) :
    /\ gate.msgs[n].text.mentions = {OtherW}
    /\ gate.msgs[n].message.pc = "enqueued"
    /\ gate.msgs[n].message.activeBefore # 0
    /\ Called("t1", MsgId("t1", n, FALSE))

\* the same in an active thread for an id that begins with U: ignored
OtherUIgnored ==
  \E n \in 1..Len(gate.msgs) :
    /\ gate.msgs[n].text.mentions = {OtherU}
    /\ gate.msgs[n].message.pc = "ignored"
    /\ gate.msgs[n].message.activeBefore # 0
    /\ gate.msgs[n].message.at - gate.msgs[n].message.activeBefore < ACTIVE_THREAD_WINDOW_MS

\* ------------------------------------------------------------------ C20
\* the message event of a stop message that finds the request processing is
\* handled as a stop, whatever the mentions and the thread's timestamp
MessageEventStops ==
  \A n \in 1..Len(gate.msgs) :
    LET m == gate.msgs[n]
    IN (m.text.stop /\ m.message.processing) => m.message.pc \in {"pending", "stopped"}

\* C20: no event of a message that contains the word stop, handled while the
\* thread's ActiveRequest is processing, enqueues the message as a prompt.
C20_StopShortCircuit ==
  \A n \in 1..Len(gate.msgs) : \A ev \in {"message", "mention"} :
    LET m == gate.msgs[n]
    IN (m.text.stop /\ m[ev].processing) => m[ev].pc # "enqueued"

\* a message "@bot stop": its message event stopped the running request, its
\* app_mention event found the request processing and enqueued the message,
\* and an agent turn has been called with it
C20_Witness ==
  \E n \in 1..Len(gate.msgs) :
    /\ gate.msgs[n].text = Text({BotMention}, TRUE, FALSE)
    /\ gate.msgs[n].message.pc = "stopped"
    /\ gate.msgs[n].mention.pc = "enqueued"
    /\ gate.msgs[n].mention.processing
    /\ Called("t1", MsgId("t1", n, FALSE))

\* ------------------------------------------------------------------ C21
RECURSIVE Concat(_)
Concat(chunks) == IF Len(chunks) = 0 THEN <<>> ELSE Head(chunks) \o Concat(Tail(chunks))

\* the indexes of the second half of the window at which character c stands
InSecondHalf(window, maxLength, c) ==
  {i \in 0..(Len(window) - 1) : i <= maxLength /\ 2 * i >= maxLength /\ window[i + 1] = c}

\* every cut of the loop is at the last newline of the second half of the
\* window, else at the last space of it, else at the limit
SplitPointsPreferred ==
  chunker.maxLength >= 1 =>
    \A k \in 1..Len(chunker.splits) :
      LET w == chunker.splits[k].window
          at == chunker.splits[k].at
          newlines == InSecondHalf(w, chunker.maxLength, "\n")
          spaces == InSecondHalf(w, chunker.maxLength, " ")
      IN IF newlines # {} THEN at \in newlines /\ \A i \in newlines : i <= at
         ELSE IF spaces # {} THEN at \in spaces /\ \A i \in spaces : i <= at
         ELSE at = chunker.maxLength

\* C21: when splitForSlack has returned for a text longer than the limit, the
\* chunks joined with no separator are the text.
C21_RoundTrip ==
  (chunker.pc = "returned" /\ Len(chunker.text) > chunker.maxLength /\ chunker.maxLength >= 1)
    => Concat(chunker.chunks) = chunker.text

\* a text cut at a newline of the second half of its window, whose chunks
\* joined are shorter than the text
C21_Witness ==
  /\ chunker.pc = "returned"
  /\ chunker.maxLength = MaxChunkLen
  /\ Len(chunker.splits) >= 1
  /\ chunker.splits[1].window[chunker.splits[1].at + 1] = "\n"
  /\ Len(Concat(chunker.chunks)) < Len(chunker.text)

\* ------------------------------------------------------------------ C22
\* what holds of the chunks at every moment of a call
ChunksBounded ==
  /\ \A i \in 1..Len(chunker.chunks) : Len(chunker.chunks[i]) <= chunker.maxLength
  /\ (chunker.pc = "returned" /\ Len(chunker.text) <= chunker.maxLength)
       => chunker.chunks = <<chunker.text>>
  /\ Len(chunker.posted) <= Len(chunker.chunks)
  /\ \A i \in 1..Len(chunker.posted) : chunker.posted[i] = chunker.chunks[i]

\* an iteration of the loop returns or leaves a shorter remainder
LoopShortens ==
  (chunker.pc = "loop" /\ chunker'.pc = "loop") =>
    Len(chunker'.remaining) < Len(chunker.remaining)

\* C22 (as stated): for every text and every maxLength the call terminates,
\* no chunk is longer than maxLength, a text within the limit is returned as
\* one unchanged chunk, and the chunks are posted in order.
C22_EveryMaxLength == []ChunksBounded /\ [][LoopShortens]_vars

\* C22 (amended): the same for every maxLength of at least 1.
C22_ChunkBound ==
  /\ [](chunker.maxLength >= 1 => ChunksBounded)
  /\ [][chunker.maxLength >= 1 => LoopShortens]_vars

\* a text of more than two windows has been split with the largest limit and
\* all its chunks are posted
C22_Witness ==
  /\ chunker.pc = "returned"
  /\ chunker.maxLength = MaxChunkLen
  /\ Len(chunker.chunks) >= 2
  /\ Len(chunker.chunks[1]) = MaxChunkLen
  /\ chunker.posted = chunker.chunks

\* ------------------------------------------------------------------ C23
SameResults ==
  \A i, j \in 1..Len(translator.results) : translator.results[i] = translator.results[j]

\* the calls on one event agree unless it is a retry status with a next time
PureWithoutNext ==
  (translator.event.status.type # "retry" \/ translator.event.status.next = 0) => SameResults

\* an event of another session is translated to null, the session being read
\* from part.sessionID for part updates and from properties.sessionID for the
\* other events; so is every event of a type the translator does not know
FilterBySessionID ==
  \A i \in 1..Len(translator.results) :
    LET e == translator.event
    IN /\ (e.type = "message.part.updated" /\ e.part.sessionID # 1)
            => translator.results[i] = NullStatus
       /\ (e.type # "message.part.updated" /\ e.sessionID = 2)
            => translator.results[i] = NullStatus
       /\ e.type \in {"none", "server.connected"} => translator.results[i] = NullStatus

\* an event whose only session id, in whichever of the three fields, is that
\* of another session is translated to null
FilterByAnyField ==
  \A i \in 1..Len(translator.results) :
    LET e == translator.event
        ids == {e.sessionID, e.sessionId, e.part.sessionID} \ {0}
    IN ids = {2} => translator.results[i] = NullStatus

\* C23: every call of statusFromEvent on the same event for the same target
\* session returns the same value.
C23_SameValueEveryCall == SameResults

\* a retry status of the target session carrying a next time has been
\* translated twice, a second apart, to different texts
C23_Witness ==
  /\ translator.event.type = "session.status"
  /\ translator.event.sessionID = 1
  /\ translator.event.status.type = "retry"
  /\ translator.event.status.next # 0
  /\ Len(translator.results) = 2
  /\ translator.results[1].seconds # translator.results[2].seconds

\* ------------------------------------------------------------------ C24
\* C24: /ode stop issued while a prompt of a thread of the channel is in
\* flight cancels it and answers "Operation cancelled."; it answers "No active
\* session." only when the channel has no session.
C24_SlashStopCancels ==
  \A i \in 1..Len(backend.slash) :
    LET a == backend.slash[i]
    IN /\ a.inFlight => (a.cancelled /\ a.answer = "Operation cancelled.")
       /\ a.answer = "No active session." => a.stored = 0

\* /ode stop was issued while a prompt of thread t1 was in flight on the
\* thread's stored session, and answered "No active session."
C24_Witness ==
  \E i \in 1..Len(backend.slash) :
    /\ backend.slash[i].inFlight
    /\ backend.slash[i].stored # 0
    /\ ~backend.slash[i].cancelled
    /\ backend.slash[i].answer = "No active session."

\* whatever the channel's threads do, /ode stop answers "No active session."
SlashStopFindsNothing ==
  \A i \in 1..Len(backend.slash) : backend.slash[i].answer = "No active session."

\* ------------------------------------------------------------------ C25
\* what a sweep does to the instance registered under each key
SweepExact ==
  backend'.sweeps = backend.sweeps + 1 =>
    \A s \in SessionIds :
      LET i == backend.sessionInstances[s]
      IN i # 0 =>
           IF backend.now - backend.instances[i].lastActive > INACTIVE_TIMEOUT_MS
             THEN /\ backend'.sessionInstances[s] = 0
                  /\ ~backend'.instances[i].eventLoopRunning
                  /\ backend'.instances[i].handlers = {}
                  /\ backend'.instances[i].closed
             ELSE /\ backend'.sessionInstances[s] = i
                  /\ backend'.instances[i] = backend.instances[i]

\* C25: a sweep stops exactly the instances whose lastActive is more than ten
\* minutes old, a stopped instance has no running loop, no handlers, a closed
\* server and no key in the map, and no handler is invoked for it afterwards.
C25_IdleSweep ==
  /\ [][SweepExact]_vars
  /\ [](\A h \in Handlers : ~backend.subs[h].afterStop)
  /\ [](\A i \in 1..Len(backend.instances) :
          backend.instances[i].closed =>
            /\ backend.instances[i].handlers = {}
            /\ \A s \in SessionIds : backend.sessionInstances[s] # i)

\* a sweep has run: an instance with a handler, idle for more than ten
\* minutes while its loop awaited a permission reply, was stopped and the
\* reply has settled since; another instance, ten minutes idle, still runs
C25_Witness ==
  /\ backend.sweeps >= 1
  /\ \E i, j \in 1..Len(backend.instances) :
       /\ backend.instances[i].closed
       /\ ~backend.instances[i].awaitingReply
       /\ backend.subs["h1"].instance = i
       /\ backend.subs["h1"].invoked
       /\ ~backend.instances[j].closed
       /\ backend.now - backend.instances[j].lastActive = INACTIVE_TIMEOUT_MS

\* ------------------------------------------------------------------ C26
\* saveSession never throws out of a failed write, and the cache holds the
\* value saved when it returns
SaveToleratesWriteFailure ==
  /\ [](~store.threw)
  /\ [][store'.saves = store.saves + 1 =>
          LoadedSession(store', store'.key).state = store'.latest[store'.key]]_vars

\* between two loadAllSessions calls a cache entry that holds the last saved
\* value keeps holding it, unless another conversation shares its record
CacheKeptBetweenReloads ==
  [][store'.op # "loadAll" =>
       \A c \in Conversations :
         (/\ store.latest[c] # "absent"
          /\ store.activeSessions[GetSessionKey(c)].conv = c
          /\ store.activeSessions[GetSessionKey(c)].state = store.latest[c]
          /\ \A d \in Conversations \ {c} : FileOf(d) # FileOf(c))
           => store'.activeSessions[GetSessionKey(c)].state = store'.latest[c]]_vars

\* C26: after a saveSession whose file write failed, every later load of the
\* conversation in the same process returns the value last saved, not the
\* older content of the file.
C26_LoadSeesLatestSave ==
  \A c \in Conversations :
    (/\ store.writeFailed[c]
     /\ store.observed[c] # "unread"
     /\ \A d \in Conversations \ {c} : FileOf(d) # FileOf(c))
      => store.observed[c] = store.latest[c]

\* the write of a completed request failed and a later read returned the
\* "processing" of the file
C26_Witness ==
  LET c == <<Chan2, ThreadDot>>
  IN /\ store.writeFailed[c]
     /\ store.latest[c] = "completed"
     /\ store.files[FileOf(c)].state = "processing"
     /\ store.observed[c] = "processing"

\* ------------------------------------------------------------------ C27
\* the progress timer of a request whose turn has ended is cleared
TimerClearedAtEnd ==
  \A t \in Threads : \A r \in 1..Len(runs[t]) :
    (runs[t][r].kind = "turn" /\ TurnEnded(t, r)) => ~runs[t][r].timer

\* the same for the requests that got into the try block of runOpenCodeRequest
TimerClearedAfterTry ==
  \A t \in Threads : \A r \in 1..Len(runs[t]) :
    (runs[t][r].kind = "turn" /\ TurnEnded(t, r) /\ runs[t][r].pc # "thrown")
      => ~runs[t][r].timer

\* C27: once a turn has ended and called the unsubscribe function of its
\* watcher, the handler is in the handler set of no session instance, also
\* when sendMessage replaced the session id during the turn.
C27_NoLeakedHandler ==
  \A h \in Handlers :
    backend.subs[h].unsubscribed
      => \A i \in 1..Len(backend.instances) : h \notin backend.instances[i].handlers

\* the turn's watcher subscribed under the stored id, sendMessage replaced the
\* id and returned, the watcher was stopped, and its handler is still in the
\* handler set of the instance, whose event loop is running
C27_Witness ==
  /\ backend.subs["h1"].how = "sync"
  /\ backend.subs["h1"].unsubscribed
  /\ backend.sends["turn"].pc = "done"
  /\ backend.sends["turn"].validSessionId # backend.sends["turn"].sessionId
  /\ \E i \in 1..Len(backend.instances) :
       /\ "h1" \in backend.instances[i].handlers
       /\ backend.instances[i].eventLoopRunning

\* ------------------------------------------------------------------ C28
\* a second plan message is posted only by a call that began while the post
\* of another call was still awaited
OnePostPerOverlap == Len(upserts.posts) <= 1 + upserts.overlapped

\* every update edits the message the plan pointed to when the call began
EditsFollowMessageTs ==
  \A e \in 1..Len(upserts.planEdits) :
    upserts.planEdits[e].ts \in 1..Len(upserts.posts)

\* C28: within one plan at most one plan chat message is posted and every
\* later todo update edits that message, whatever the number and timing of
\* the todo.updated events.
C28_PlanMessageOnce ==
  /\ Len(upserts.posts) <= 1
  /\ \A e \in 1..Len(upserts.planEdits) : upserts.planEdits[e].ts = 1

\* two todo.updated events arrived while the first post was awaited: two plan
\* messages are in the chat, and a later update edited the second only
C28_Witness ==
  /\ Len(upserts.posts) = 2
  /\ upserts.overlapped = 1
  /\ Len(upserts.planEdits) = 1
  /\ upserts.planEdits[1].ts = 2
  /\ \A k \in 1..Len(upserts.calls) : upserts.calls[k].pc = "done"

\* ------------------------------------------------------------------ C29
\* The step in which turn k of t1 chooses its phase and enters its first request:
\* the plan phase exactly when the plan awaits input or the text matches
\* /plan/i, with the user's text as the message of the request.
PhaseChosen ==
  \A k \in 1..Len(turns["t1"]) :
    (turns["t1"][k].pc = "session" /\ turns'["t1"][k].pc = "run") =>
      LET usePlanAgent == \/ sessions["t1"].plan.status = "awaiting_input"
                          \/ MatchesPlan(turns["t1"][k].text)
          first == runs'["t1"][turns'["t1"][k].run]
      IN /\ first.agent = IF usePlanAgent THEN "plan" ELSE "build"
         /\ turns'["t1"][k].phase = first.agent
         /\ first.message = turns["t1"][k].text
         /\ first.owner = k
         /\ turns'["t1"][k].prompts = 0

\* the step in which request r of a turn sends its backend prompt
SendsPrompt(r) ==
  /\ r \in 1..Len(runs["t1"])
  /\ runs["t1"][r].kind = "turn"
  /\ runs["t1"][r].pc = "connecting"
  /\ runs'["t1"][r].pc = "prompt"

\* the direct turns that have ended
EndedDirect ==
  {k \in 1..Len(turns["t1"]) :
     turns["t1"][k].branch = "direct" /\ turns["t1"][k].pc \in {"returned", "thrown"}}

\* C29 as stated: the phase is chosen by awaiting_input or the keyword, every
\* prompt reaches the backend with the agent of its phase, and a direct turn
\* sends exactly one prompt.
C29_PhaseSelection ==
  /\ [][PhaseChosen]_vars
  /\ [][\A r \in 1..Len(runs["t1"]) :
          SendsPrompt(r) => runs'["t1"][r].sentAgent = runs["t1"][r].agent]_vars
  /\ [](\A k \in EndedDirect : turns["t1"][k].prompts = 1)

\* C29 (amended): the phase is chosen by awaiting_input or the keyword; the
\* prompt reaches the backend with the agent override of the channel when one
\* is set and with the agent of its phase otherwise; a direct turn sends at most
\* one prompt, and exactly one when it ends with the plan complete.
C29_PhaseWithOverride ==
  /\ [][PhaseChosen]_vars
  /\ [][\A r \in 1..Len(runs["t1"]) :
          SendsPrompt(r) =>
            runs'["t1"][r].sentAgent =
              IF backend.agentOverride # "" THEN backend.agentOverride
              ELSE runs["t1"][r].agent]_vars
  /\ [](\A k \in EndedDirect :
          /\ turns["t1"][k].prompts <= 1
          /\ (turns["t1"][k].pc = "returned" /\ sessions["t1"].plan.status = "complete")
               => turns["t1"][k].prompts = 1)

\* a later message without the keyword re-entered planning because the plan
\* awaited input, and its prompt went out with the channel's override "build"
C29_Witness ==
  \E k \in 2..Len(turns["t1"]) :
    LET tn == turns["t1"][k]
    IN /\ tn.phase = "plan"
       /\ ~MatchesPlan(tn.text)
       /\ tn.pc = "run"
       /\ tn.prompts = 1
       /\ runs["t1"][tn.run].agent = "plan"
       /\ runs["t1"][tn.run].pc = "prompt"
       /\ runs["t1"][tn.run].sentAgent = "build"

\* ------------------------------------------------------------------ C30
\* the entries of q for messages other than m, in their order
OthersOf(q, m) == SelectSeq(q, LAMBDA e : e.key # m)

\* the step is an accepted update for message m
Accepted(m) ==
  /\ meter'[m].calls = meter[m].calls + 1
  /\ now - lastUpdateTime[m] >= UPDATE_THROTTLE_MS

\* C30: the global update queue never holds two entries for one message; an
\* accepted update for a message leaves in the queue the entries of the other
\* messages in their order, followed by the new entry alone for its message
\* (less the head, when the drain loop takes it in the same step).
C30_QueueCollapse ==
  /\ [](\A i, j \in 1..Len(globalUpdateQueue) :
          i # j => globalUpdateQueue[i].key # globalUpdateQueue[j].key)
  /\ [][\A m \in Msgs :
          Accepted(m) =>
            LET entry == [key |-> m, text |-> StatusText(meter'[m].calls), waiter |-> {}]
                expected == Append(OthersOf(globalUpdateQueue, m), entry)
            IN IF drain.pc = "idle" /\ drain'.pc = "updating"
                 THEN globalUpdateQueue' = Tail(expected) /\ drain'.item = Head(expected)
                 ELSE globalUpdateQueue' = expected]_vars

\* three messages were queued, m2 first; a second update for m2 was accepted
\* and its first, never written, is gone: m3 and m1 kept their order and the
\* new entry stands last
C30_Witness ==
  /\ Len(globalUpdateQueue) = 3
  /\ globalUpdateQueue[1].key = "m3"
  /\ globalUpdateQueue[2].key = "m1"
  /\ globalUpdateQueue[3] = [key |-> "m2", text |-> StatusText(2), waiter |-> {}]
  /\ Len(edits["m2"]) = 0

\* ------------------------------------------------------------------ C31
\* a drain loop is running whenever the queue holds an entry
DrainRunsWhileQueued ==
  Len(globalUpdateQueue) > 0 => globalQueueProcessing /\ drain.pc \in {"sleeping", "updating"}

\* C31: the promise of every updateMessageThrottled call is eventually
\* resolved, and a drain loop is running whenever the queue holds an entry.
C31_WaitersResolved ==
  /\ \A c \in 1..MaxAwaited : [](c <= TotalCalls => <>(c \in settled))
  /\ []DrainRunsWhileQueued

\* every call has been made and resolved and the queue has drained: the one
\* call for m1 was written; of the three for m2 the first was queued and
\* removed as superseded, one was dropped by the per-message throttle, and
\* only the last was written
C31_Witness ==
  /\ TotalCalls = 4
  /\ settled = 1..TotalCalls
  /\ Drained
  /\ meter["m1"].calls = 1
  /\ meter["m2"].calls = 3
  /\ Len(edits["m1"]) = 1
  /\ edits["m2"] = <<StatusText(3)>>

\* ------------------------------------------------------------------ C32
\* the step issues a chat.update for message m
Issues(m) == Len(edits'[m]) = Len(edits[m]) + 1

\* C32: the queued edits are issued one per step of the one drain loop, each
\* the oldest entry of the queue, and an edit starts at least 1000 ms after the
\* edit before it started (globalLastUpdate is the start of the last edit).
C32_GlobalGate ==
  [][/\ \A m \in Msgs :
          Issues(m) =>
            /\ drain'.pc = "updating"
            /\ globalQueueProcessing'
            /\ \A o \in Msgs \ {m} : edits'[o] = edits[o]
            /\ drain'.item.key = m
            /\ edits'[m][Len(edits'[m])] = drain'.item.text
            /\ Len(globalUpdateQueue) > 0
                 => /\ drain'.item = globalUpdateQueue[1]
                    /\ globalUpdateQueue' = Tail(globalUpdateQueue)
            /\ globalLastUpdate = 0 \/ now - globalLastUpdate >= GLOBAL_UPDATE_INTERVAL_MS
            /\ globalLastUpdate' = now
     /\ (\A m \in Msgs : ~Issues(m)) => globalLastUpdate' = globalLastUpdate
     /\ \A m \in Msgs : Len(edits'[m]) <= Len(edits[m]) + 1]_vars

\* two entries waited in the queue; the loop slept, issued the older one a
\* full second after the edit before it, and the younger one is still queued
C32_Witness ==
  /\ drain.pc = "updating"
  /\ drain.item.key = "m2"
  /\ Len(edits["m1"]) = 1
  /\ Len(edits["m2"]) = 1
  /\ Len(globalUpdateQueue) = 1
  /\ globalUpdateQueue[1].key = "m1"
  /\ globalLastUpdate = StartTime + GLOBAL_UPDATE_INTERVAL_MS

\* ------------------------------------------------------------------ C33
\* the ids a step may mark, in the order it marks them: one message of a
\* thread, or the messages of the other conversations
MarkedInStep ==
  {<<MsgId(t, n, FALSE)>> : t \in Threads, n \in 1..MaxDedupMsgs}
    \cup {[k \in 1..Backlog |-> MsgId("others", k, FALSE)]}

\* the smaller of two numbers
Least(a, b) == IF a < b THEN a ELSE b

\* C33: the processed set never holds more than 1000 ids; a step that marks
\* ids leaves the newest of the ids held and marked, in their order, at least
\* 500 of them when there are as many, the id marked last among them.
C33_BoundedSet ==
  /\ [](Len(processedMessages) <= ProcessedCapacity)
  /\ [][processedMessages' # processedMessages =>
          \E marked \in MarkedInStep :
            LET log == processedMessages \o marked
                left == Len(processedMessages')
            IN /\ \A i \in 1..Len(marked) : ~IsMessageProcessed(processedMessages, marked[i])
               /\ left <= Len(log)
               /\ left >= Least(Len(log), EvictCount)
               /\ processedMessages' = SubSeq(log, Len(log) - left + 1, Len(log))
               /\ IsMessageProcessed(processedMessages', marked[Len(marked)])]_vars

\* the set overflowed while the messages of other conversations were marked:
\* the 500 oldest ids are gone, the first message of t1 among them, and the
\* 501 newest are held
C33_Witness ==
  /\ backlog = Backlog
  /\ Len(processedMessages) = ProcessedCapacity + 1 - EvictCount
  /\ sent["t1"] >= 1
  /\ ~IsMessageProcessed(processedMessages, MsgId("t1", 1, FALSE))
  /\ processedMessages[Len(processedMessages)] = MsgId("others", Backlog, FALSE)

\* ------------------------------------------------------------------ C34
\* the step is one of saveSession, updateActiveRequest, completeActiveRequest,
\* failActiveRequest, clearActiveRequest for a conversation
WritesSession == store'.op \in {"store", "end", "update", "clear"}

\* an operation for one conversation leaves the cache entry and the file of
\* every conversation with another file name as they are
OtherFilesIsolated ==
  [][WritesSession =>
       \A c \in Conversations :
         FileOf(c) # FileOf(store'.conv) =>
           /\ store'.activeSessions[GetSessionKey(c)] = store.activeSessions[GetSessionKey(c)]
           /\ store'.files[FileOf(c)] = store.files[FileOf(c)]]_vars

\* C34: an operation of the session store for conversation (c, t) leaves the
\* cached and the persisted record of every conversation with a different key
\* unchanged, also when the keys differ only in characters that the file name
\* replaces.
C34_KeyIsolation ==
  [][WritesSession =>
       \A c \in Conversations :
         GetSessionKey(c) # GetSessionKey(store'.conv) =>
           /\ store'.activeSessions[GetSessionKey(c)] = store.activeSessions[GetSessionKey(c)]
           /\ store'.files[FileOf(c)] = store.files[FileOf(c)]]_vars

\* two conversations with different keys and one file name, and the request
\* of the second was stored in the record of the first
C34_SharedFile ==
  LET a == <<Chan1, ThreadDot>>
      b == <<Chan1, ThreadColon>>
  IN /\ GetSessionKey(a) # GetSessionKey(b)
     /\ FileOf(a) = FileOf(b)
     /\ store.op = "store"
     /\ store.conv = b
     /\ store.files[FileOf(a)].conv = a
     /\ store.activeSessions[GetSessionKey(a)].state = "processing"
     /\ store.latest[a] = "completed"

\* ------------------------------------------------------------------ C35
\* the step is a failure of the best-effort call `what`
Failed(what) == swallowed'.flip # swallowed.flip /\ swallowed'.what = what

\* the ActiveRequest that the session of thread t holds is failed as stopped,
\* in the state after the step
StoppedAfter(t) ==
  sessions'[t].activeRequest # 0 =>
    /\ runs'[t][sessions'[t].activeRequest].state = "failed"
    /\ runs'[t][sessions'[t].activeRequest].error = "Stopped by user"

\* no activation ends by an exception in the step
NothingThrown ==
  \A t \in Threads :
    \A r \in 1..Len(runs[t]) : runs'[t][r].pc = "thrown" => runs[t][r].pc = "thrown"

\* a failed abort leaves the stop command at its next statement, with the
\* request marked; a failed delete leaves it finished, the request persisted
\* as failed
StopGoesOn ==
  [][/\ Failed("abort") =>
          /\ \E i \in 1..Len(stops') :
               /\ stops'[i].request = swallowed'.request
               /\ stops'[i].pc = "deleting"
          /\ runs'[swallowed'.thread][swallowed'.request].state = "failed"
          /\ runs'[swallowed'.thread][swallowed'.request].error = "Stopped by user"
          /\ NothingThrown
     /\ Failed("stopDelete") =>
          /\ Len(stops') = Len(stops) - 1
          /\ StoppedAfter(swallowed'.thread)
          /\ NothingThrown]_vars

\* a failed delete at the end of a request leaves the request completed and
\* returned to its turn
TurnGoesOn ==
  [][Failed("delete") =>
       LET t == swallowed'.thread
           r == swallowed'.request
       IN /\ runs'[t][r].pc = "done"
          /\ sessions[t].activeRequest # 0 =>
               runs'[t][sessions[t].activeRequest].state = "completed"
          /\ NothingThrown]_vars

\* a failed edit resolves the promise of its entry and leaves the drain loop
\* at its next entry, or ended when there is none
QueueGoesOn ==
  [][Failed("edit") =>
       /\ drain.item.waiter \subseteq settled'
       /\ IF Len(globalUpdateQueue) > 0
            THEN /\ globalQueueProcessing'
                 /\ drain'.pc \in {"sleeping", "updating"}
                 /\ drain'.pc = "updating" => drain'.item = globalUpdateQueue[1]
                 /\ drain'.pc = "sleeping" => globalUpdateQueue' = globalUpdateQueue
            ELSE ~globalQueueProcessing' /\ drain' = Idle]_vars

\* C35: a failure of deleting a message, of aborting a backend session, or of
\* a chat edit of the global queue reaches no caller; the turn or the stop
\* command goes on to its persisted terminal state, and the global queue goes
\* on with its next entry, until it is empty.
C35_BestEffort ==
  /\ StopGoesOn
  /\ TurnGoesOn
  /\ QueueGoesOn
  /\ (Len(stops) > 0) ~> (Len(stops) = 0)
  /\ (swallowed.what = "edit") ~> (drain.pc = "idle" /\ Len(globalUpdateQueue) = 0)

\* the edit of m1 failed, and the drain loop has issued the edit of m2 that
\* was queued behind it
C35_Witness ==
  /\ swallowed.what = "edit"
  /\ swallowed.key = "m1"
  /\ edits["m1"] # <<>>
  /\ drain.pc = "updating"
  /\ drain.item.key = "m2"
  /\ 1 \in settled

\* a stop command whose abort and whose delete both failed has ended, and the
\* request is persisted as stopped while its status message is still there
C35_StopWitness ==
  /\ swallowed.what = "stopDelete"
  /\ swallowed.flip = FALSE
  /\ Len(stops) = 0
  /\ sessions["t1"].activeRequest = swallowed.request
  /\ runs["t1"][swallowed.request].state = "failed"
  /\ runs["t1"][swallowed.request].statusMsg = "posted"

\* a request whose status message could not be deleted is completed
C35_TurnWitness ==
  /\ swallowed.what = "delete"
  /\ sessions["t1"].activeRequest = swallowed.request
  /\ runs["t1"][swallowed.request].state = "completed"
  /\ runs["t1"][swallowed.request].statusMsg = "posted"

\* ------------------------------------------------------------------ C36
\* the requests of thread t that the session holds and that a stop command,
\* now returned, has marked failed
StoppedRequests(t) ==
  {r \in 1..Len(runs[t]) :
     /\ sessions[t].activeRequest = r
     /\ runs[t][r].state = "failed"
     /\ runs[t][r].error = "Stopped by user"
     /\ ~\E i \in 1..Len(stops) : stops[i].thread = t /\ stops[i].request = r}

\* when handleStopCommand returns, the request that the session holds is
\* failed with "Stopped by user"
StopMarksFailed ==
  [][Len(stops') < Len(stops) => StoppedAfter("t1")]_vars

\* C36: once a stop command has marked a request failed with "Stopped by
\* user", the state and the error of that request never change: the pending
\* backend call that returns or fails leaves them as they are.
C36_StopFinal ==
  [][\A r \in StoppedRequests("t1") :
       sessions'["t1"].activeRequest = r =>
         /\ runs'["t1"][r].state = "failed"
         /\ runs'["t1"][r].error = "Stopped by user"]_vars

\* the prompt of a stopped request has returned and the request is completed
C36_Overwritten ==
  \E r \in 1..Len(runs["t1"]) :
    /\ sessions["t1"].activeRequest = r
    /\ runs["t1"][r].aborts > 0
    /\ runs["t1"][r].statusMsg = "deleted"
    /\ runs["t1"][r].state = "completed"
    /\ runs["t1"][r].pc = "done"
    /\ Len(stops) = 0

\* ------------------------------------------------------------------ C37
\* a callback sends a status update only while its request is processing
TickSendsWhileProcessing ==
  [][\A r \in TickRequests :
       ticking'.requests[r].fired > ticking.requests[r].fired =>
         ticking.requests[r].state = "processing"]_vars

\* C37: a callback of the progress timer of request R that resumes after R
\* has ended leaves the ActiveRequest of a later request of the thread as it
\* is: the ActiveRequest of the session carries the fields of its own request.
C37_TickOwnRequest ==
  ticking.saved.of # 0 => ticking.saved.content = ticking.saved.of

\* the second request is processing, and its ActiveRequest carries the fields
\* that a callback of the first request wrote
C37_Overwritten ==
  /\ ticking.requests[1].state = "completed"
  /\ ticking.requests[2].state = "processing"
  /\ ticking.saved.of = 2
  /\ ticking.saved.state = "processing"
  /\ ticking.saved.content = 1
  /\ ticking.resumed = 1

\* ------------------------------------------------------------------ C38
\* the recovery leaves the sessions without a processing request as they are
RecoveryKeepsOthers ==
  \A s \in Keys \ recovery.live :
    recovery.initial[s].state # "processing" => persisted[s] = recovery.initial[s]

\* C38: recoverPendingRequests neither clears nor rewrites the status message
\* of an ActiveRequest that the current process created, and does not replace
\* the cached session object of a turn of the current process.
C38_LiveUndisturbed ==
  \A s \in recovery.live :
    /\ recovery.decided[s].kind = "none"
    /\ persisted[s].state = "processing"
    /\ edits[StatusKey(s)] = <<>>
    /\ s \notin recovery.reloaded

\* the request that a turn of this process created was found by the recovery,
\* its status message was overwritten with the restart text, and it was cleared
C38_LiveCleared ==
  /\ "s1" \in recovery.live
  /\ "s1" \in recovery.reloaded
  /\ recovery.decided["s1"].kind = "edit"
  /\ recovery.decided["s1"].age < 1000
  /\ edits[StatusKey("s1")] = <<Lit("_Bot restarted - please resend your message_")>>
  /\ persisted["s1"] = NoRequest
  /\ recovery.pc = "done"

\* ------------------------------------------------------------------ C39
\* a prompt runs on the session id that ensureValidSession returned, which is
\* valid in the instance of the call
PromptOnValidSession ==
  \A c \in SendCallers :
    backend.sends[c].pc = "prompt" =>
      /\ backend.sends[c].validSessionId # 0
      /\ backend.sends[c].validSessionId
           \in backend.instances[backend.sends[c].instance].validSessionIds

\* C39: while a prompt is in flight, the session id of the ActiveRequest (the
\* id that the handler created the request with and gave to sendMessage) is
\* the id of the session on which the prompt runs, and is bound to the
\* instance that runs it.
C39_StopReachesPrompt ==
  \A c \in SendCallers :
    backend.sends[c].pc = "prompt" =>
      /\ backend.sends[c].sessionId = backend.sends[c].validSessionId
      /\ InstanceOf(backend, backend.sends[c].sessionId) = backend.sends[c].instance

\* the turn's prompt runs on a session created in place of the stale id of
\* its ActiveRequest, and no instance is bound to that id any more
C39_StaleRequestId ==
  /\ backend.sends["turn"].pc = "prompt"
  /\ backend.sends["button"].pc = "idle"
  /\ backend.sends["turn"].validSessionId # backend.sends["turn"].sessionId
  /\ backend.threadSessions["t1"] = backend.sends["turn"].validSessionId
  /\ InstanceOf(backend, backend.sends["turn"].sessionId) = 0
  /\ InstanceOf(backend, backend.sends["turn"].validSessionId) = backend.sends["turn"].instance

\* ------------------------------------------------------------------ C40
\* the creations that have called createOpencode
Started == {c \in Creations : environ.creations[c].pc \in {"starting", "done"}}

\* the creations with overrides run one at a time, each with exactly its
\* overrides applied, and the environment is as before when none runs
OverridesSerialized ==
  /\ \A c \in Started :
       environ.creations[c].overrides # NoOverrides =>
         environ.creations[c].seen = Applied(BaseEnv, environ.creations[c].overrides)
  /\ environ.running = 0 => environ.env = BaseEnv
  /\ environ.running # 0 =>
       /\ environ.creations[environ.running].pc = "starting"
       /\ environ.env = Applied(BaseEnv, environ.creations[environ.running].overrides)

\* C40: every backend instance is created with exactly the overrides asked
\* for it applied to the environment; no creation, one without overrides
\* included, runs while the overrides of another are in effect.
C40_EnvIsolation ==
  \A c \in Started :
    environ.creations[c].seen = Applied(BaseEnv, environ.creations[c].overrides)

\* an instance asked for without overrides was started while the overrides of
\* the creation before it were applied
C40_Leaked ==
  /\ environ.creations[1].overrides # NoOverrides
  /\ environ.creations[1].pc = "starting"
  /\ environ.running = 1
  /\ environ.creations[2].overrides = NoOverrides
  /\ environ.creations[2].pc = "starting"
  /\ environ.creations[2].seen = Applied(BaseEnv, environ.creations[1].overrides)
  /\ environ.creations[2].seen # BaseEnv

====
